---------------------------- MODULE Spec2Model ----------------------------
(***************************************************************************)
(* A model of the worktree lifecycle manager (git_worktree_isolation.py),  *)
(* of the sandbox gate (worker_sandbox.py) and of the path containment     *)
(* helpers the two share.                                                  *)
(*                                                                         *)
(* A name (one path component, a slug, a branch) is a sequence of          *)
(* one-character strings; a path is a sequence of names.  An absolute path *)
(* is the sequence of its components below "/".  A path as a caller writes *)
(* it is a record [abs, segs].                                             *)
(***************************************************************************)
EXTENDS Integers, Sequences, FiniteSets, Bags, TLC

VARIABLES
    dirs,       \* the directories that exist besides the fixed ones (absolute paths)
    broken,     \* worktree directories whose .git link file was overwritten
    branches,   \* the repository's branch names
    registry,   \* git's worktree registry: a set of [path, branch]
    now,        \* the wall clock, in seconds
    pc,         \* per process: where its call stands
    call,       \* per process: the arguments and locals of its call
    result,     \* per process: what its last call returned
    derived,    \* history: the bag of the names the create calls derived
    snap,       \* history: per process, the state its create started from
    ncalls,     \* history: the number of calls started
    rin,        \* SpecResolve: the call under test [fn, root, raw]
    rout,       \* SpecResolve: its outcome, or NotCalled
    host,       \* SpecRun: what the gate's host holds besides dirs
    run,        \* SpecRun: the gate's call: its arguments, locals and outcome
    execs,      \* SpecRun, history: the child processes the gate started
    san,        \* SpecSlug: the string under test and what _sanitize_slug made of it
    ckpt        \* SpecCheckpoint: the commit/push helper's call and its repository

fsvars == <<dirs, broken, branches, registry>>
procvars == <<pc, call, result, derived, snap, ncalls>>
resolvevars == <<rin, rout>>
runvars == <<host, run, execs, san, ckpt>>
vars == <<dirs, broken, branches, registry, now, pc, call, result, derived, snap,
          ncalls, rin, rout, host, run, execs, san, ckpt>>

----------------------------------------------------------------------------
(* Bounds *)

\* longest caller-written path, in components, that the resolver checks draw
MaxLen == 3

----------------------------------------------------------------------------
(* Names on the modelled host *)

DotDot == <<".", ".">>
Dot == <<".">>
N_repo == <<"r">>
N_papers == <<"p", "s">>
N_P1 == <<"P", "1">>
N_P2 == <<"P", "2">>
N_file == <<"f">>
N_skill == <<"s", "k">>
N_ln == <<"l", "n">>
N_ext == <<"e", "x">>
N_out == <<"x">>
N_wts == <<"w">>
N_tmp == <<"t">>

RepoRoot == <<N_repo>>
OutsideDir == <<N_out>>

IsPrefix(a, b) == Len(a) <= Len(b) /\ SubSeq(b, 1, Len(a)) = a

Front(s) == SubSeq(s, 1, Len(s) - 1)

Last(s) == s[Len(s)]

SeqsUpTo(S, n) == UNION {[1..k -> S] : k \in 0..n}

----------------------------------------------------------------------------
(* The file system: symbolic links *)

\* The worktree directories that exist (each a checkout of the base ref).
LiveWorktrees == {e.path : e \in {r \in registry : r.path \in dirs}}

\* The base ref tracks two symbolic links at its top level: ln -> ps (a
\* relative target, so it stays inside whichever checkout holds it) and
\* ex -> /x (an absolute target outside the repository).  They are in the
\* main working tree and in every worktree that still holds its checkout (a
\* worktree overwritten by a copy of a tree holds plain directories instead).
CheckoutRootsOf(d, reg, b) ==
    {RepoRoot} \cup {e.path : e \in {r \in reg : r.path \in d /\ r.path \notin b}}

CheckoutRoots == CheckoutRootsOf(dirs, registry, broken)

IsLink(roots, p) ==
    /\ Len(p) >= 1
    /\ Last(p) \in {N_ln, N_ext}
    /\ Front(p) \in roots

LinkTarget(p) ==
    IF Last(p) = N_ln THEN Append(Front(p), N_papers) ELSE OutsideDir

----------------------------------------------------------------------------
(* pathlib *)

\* Path(raw): "." components are dropped when the path is parsed.
PathOf(raw) == [abs |-> raw.abs, segs |-> SelectSeq(raw.segs, LAMBDA s : s # Dot)]

\* root / raw : an absolute right operand replaces the left one.
Join(root, path) == IF path.abs THEN path.segs ELSE root \o path.segs

\* Path.resolve() (non-strict): walk the components from "/", replace each
\* symbolic link met by its target, and let ".." drop the last component of
\* what is resolved so far.
RECURSIVE ResolveFrom(_, _, _)
ResolveFrom(roots, cur, rest) ==
    IF rest = <<>> THEN cur
    ELSE LET s == Head(rest)
             nxt == Append(cur, s)
         IN  IF s = DotDot
                 THEN ResolveFrom(roots, IF cur = <<>> THEN cur ELSE Front(cur), Tail(rest))
             ELSE IF IsLink(roots, nxt)
                 THEN ResolveFrom(roots, LinkTarget(nxt), Tail(rest))
             ELSE ResolveFrom(roots, nxt, Tail(rest))

\* resolve() against the links of the checkouts `roots`, and against those of
\* the current state.
ResolveIn(roots, p) == ResolveFrom(roots, <<>>, p)

Resolve(p) == ResolveIn(CheckoutRoots, p)

\* abs_path.relative_to(root): the components after root, or ValueError.
RelativeTo(p, root) ==
    IF IsPrefix(root, p)
        THEN [ok |-> TRUE, rel |-> SubSeq(p, Len(root) + 1, Len(p))]
        ELSE [ok |-> FALSE, rel |-> <<>>]

----------------------------------------------------------------------------
(* The containment resolvers *)

Ok(p) == [ok |-> TRUE, path |-> p, rel |-> <<>>, err |-> "none"]
OkRel(p, r) == [ok |-> TRUE, path |-> p, rel |-> r, err |-> "none"]
Err(e) == [ok |-> FALSE, path |-> <<>>, rel |-> <<>>, err |-> e]
NotCalled == Err("not called")
NoResolve == [fn |-> "none", root |-> <<>>, raw |-> [abs |-> FALSE, segs |-> <<>>]]

\* The sandbox gate before any call of it: a host that was not looked at,
\* no call, no child process.
NoHost == [bwrap |-> FALSE, files |-> {}, links |-> {}, sys |-> {}, env |-> {}]
NoLocals ==
    [worktree_path |-> <<>>, paper_abs |-> <<>>, paper_rel |-> <<>>,
     skill_abs |-> <<>>, skill_rel |-> <<>>, output_abs |-> <<>>, output_rel |-> <<>>,
     worker_cmd |-> <<>>]
NoRunArgs ==
    [worktree_path |-> [abs |-> FALSE, segs |-> <<>>],
     paper_dir_relpath |-> [abs |-> FALSE, segs |-> <<>>],
     skill_dir_relpath |-> [abs |-> FALSE, segs |-> <<>>],
     output_dir |-> [abs |-> FALSE, segs |-> <<>>],
     cwd_mode |-> "workspace", worker_cmd |-> <<>>]
NoRun ==
    [pc |-> "none", args |-> NoRunArgs, locals |-> NoLocals, code |-> 0,
     message |-> [label |-> "", text |-> "", path |-> <<>>], dirs0 |-> {}]
NoSan == [pc |-> "none", raw |-> <<>>, token |-> <<>>, again |-> <<>>]
NoCheckpoint == [pc |-> "none"]
RunIdle == host = NoHost /\ run = NoRun /\ execs = <<>> /\ san = NoSan /\ ckpt = NoCheckpoint

\* A resolver that canonicalizes but never compares the result with the root.
ResolveUnderRootUncontained(roots, root, raw) ==
    LET path == PathOf(raw)
    IN  IF path.abs THEN Err("ValueError: must be a relative path")
        ELSE Ok(ResolveIn(roots, Join(root, path)))

\* git_worktree_isolation._resolve_under_root
ResolveUnderRootIn(roots, root, raw) ==
    LET path == PathOf(raw)
        abs_path == ResolveIn(roots, Join(root, path))
    IN  IF path.abs THEN Err("ValueError: must be a relative path")
        ELSE IF ~RelativeTo(abs_path, root).ok THEN Err("ValueError: escapes")
        ELSE Ok(abs_path)

ResolveUnderRoot(root, raw) == ResolveUnderRootIn(CheckoutRoots, root, raw)

\* worker_sandbox._resolve_under
ResolveUnder(base_dir, raw) ==
    LET path == PathOf(raw)
        abs_path == Resolve(Join(base_dir, path))
        rel == RelativeTo(abs_path, base_dir)
    IN  IF path.abs THEN Err("ValueError: must be a relative path")
        ELSE IF ~rel.ok THEN Err("ValueError: escapes")
        ELSE OkRel(abs_path, rel.rel)

----------------------------------------------------------------------------
(* The file system: directories and files *)

N_refs == <<"r", "f">>
N_scripts == <<"s", "c">>
N_skillmd == <<"S", "K", "I", "L", "L", ".", "m", "d">>

\* What the host holds whatever the manager does: the repository with two
\* paper folders, a regular file and the skill folder, and a directory outside.
StaticDirs ==
    { RepoRoot,
      <<N_repo, N_papers>>, <<N_repo, N_papers, N_P1>>, <<N_repo, N_papers, N_P2>>,
      <<N_repo, N_skill>>, <<N_repo, N_skill, N_refs>>, <<N_repo, N_skill, N_scripts>>,
      OutsideDir, <<N_out, N_P1>> }

StaticFiles == { <<N_repo, N_papers, N_file>>, <<N_repo, N_skill, N_skillmd>> }

\* A host on which every path tests as existing.
ExistsAlways(p) == TRUE

\* Path.is_dir() and Path.exists() of a resolved path.
IsDir(p) == p \in StaticDirs \cup dirs
Exists(p) == IsDir(p) \/ p \in StaticFiles

Subtree(d, p) == {q \in d : IsPrefix(p, q)}

\* mkdir(parents=True, exist_ok=True)
MkdirP(d, p) == d \cup ({SubSeq(p, 1, k) : k \in 1..Len(p)} \ StaticDirs)

RegisteredPaths == {e.path : e \in registry}

\* git_worktree_isolation._copy_tree(src, dst), src an existing directory.
\* An existing destination is removed, its parents are made, and the tree is
\* copied.  Copying a tree into itself recurses until the copy raises; envFail
\* is a copy the host stops partway (a read-only destination, a full disk).
\* A destination that is a worktree's own root loses the worktree's .git file.
CopyTree(d, b, src, dst, envFail) ==
    LET phys == ResolveIn(CheckoutRootsOf(d, registry, b), dst)
        cleared == IF phys \in d THEN d \ Subtree(d, phys) ELSE d
        made == MkdirP(cleared, phys)
        clobbered == IF phys \in RegisteredPaths THEN b \cup {phys} ELSE b
    IN  [ok |-> ~envFail /\ ~IsPrefix(src, phys), dirs |-> made, broken |-> clobbered]

----------------------------------------------------------------------------
(* Names *)

Alnum ==
    {"a", "b", "c", "d", "e", "f", "g", "h", "i", "j", "k", "l", "m", "n", "o", "p",
     "q", "r", "s", "t", "u", "v", "w", "x", "y", "z",
     "A", "B", "C", "D", "E", "F", "G", "H", "I", "J", "K", "L", "M", "N", "O", "P",
     "Q", "R", "S", "T", "U", "V", "W", "X", "Y", "Z",
     "0", "1", "2", "3", "4", "5", "6", "7", "8", "9"}

SafeChars == Alnum \cup {".", "_", "-"}
Whitespace == {" ", "\t", "\n"}
Separators == {"-", "_", "."}
DefaultSlug == <<"p", "a", "p", "e", "r">>

RECURSIVE DropLeading(_, _)
DropLeading(s, S) ==
    IF s # <<>> /\ Head(s) \in S THEN DropLeading(Tail(s), S) ELSE s

RECURSIVE DropTrailing(_, _)
DropTrailing(s, S) ==
    IF s # <<>> /\ Last(s) \in S THEN DropTrailing(Front(s), S) ELSE s

\* str.strip(chars)
StripChars(s, S) == DropTrailing(DropLeading(s, S), S)

\* re.sub(r"[^A-Za-z0-9._-]+", "-", s): each run of other characters becomes one "-".
RECURSIVE SubUnsafe(_, _)
SubUnsafe(s, inRun) ==
    IF s = <<>> THEN <<>>
    ELSE IF Head(s) \in SafeChars THEN <<Head(s)>> \o SubUnsafe(Tail(s), FALSE)
    ELSE IF inRun THEN SubUnsafe(Tail(s), TRUE)
    ELSE <<"-">> \o SubUnsafe(Tail(s), TRUE)

\* git_worktree_isolation._sanitize_slug
SanitizeSlug(raw) ==
    LET cleaned == StripChars(SubUnsafe(StripChars(raw, Whitespace), FALSE), Separators)
    IN  IF cleaned = <<>> THEN DefaultSlug ELSE cleaned

\* Path(rel).name: the last component, empty for "."
PathName(rel) == IF rel = <<>> THEN <<>> ELSE Last(rel)

Digits == <<"0", "1", "2", "3", "4", "5", "6", "7", "8", "9">>

\* str(n) of a natural number
RECURSIVE DecStr(_)
DecStr(n) ==
    IF n < 10 THEN <<Digits[n + 1]>> ELSE DecStr(n \div 10) \o <<Digits[(n % 10) + 1]>>

\* time.strftime("%Y%m%d-%H%M%S"): fixed width, one value per clock second.
Stamp(t) == <<Digits[((t \div 10) % 10) + 1], Digits[(t % 10) + 1]>>

\* suffix = f"{stamp}-{Path.cwd().name}-{os.getpid()}"
Suffix(t, cwd, pid) == Stamp(t) \o <<"-">> \o PathName(cwd) \o <<"-">> \o DecStr(pid)

\* branch = f"{args.branch_prefix}/{slug}-{suffix}"
BranchName(prefix, slug, suffix) == prefix \o <<"/">> \o slug \o <<"-">> \o suffix

\* What git accepts as a branch name (git check-ref-format --branch, which
\* "git worktree add -b" applies to the name it is given).
RefForbidden == {" ", "\t", "\n", "~", "^", ":", "?", "*", "[", "\\"}

HasPair(s, a, b) == \E k \in 1..(Len(s) - 1) : s[k] = a /\ s[k + 1] = b

EndsWith(s, t) ==
    Len(s) >= Len(t) /\ SubSeq(s, Len(s) - Len(t) + 1, Len(s)) = t

\* The "/"-separated components of a name.
RECURSIVE SplitSlash(_, _)
SplitSlash(s, cur) ==
    IF s = <<>> THEN <<cur>>
    ELSE IF Head(s) = "/" THEN <<cur>> \o SplitSlash(Tail(s), <<>>)
    ELSE SplitSlash(Tail(s), Append(cur, Head(s)))

\* One component of a reference name.
RefComponentOk(c) ==
    /\ c # <<>>
    /\ Head(c) # "."
    /\ ~EndsWith(c, <<".", "l", "o", "c", "k">>)
    /\ ~HasPair(c, ".", ".")
    /\ ~HasPair(c, "@", "{")
    /\ \A k \in 1..Len(c) : c[k] \notin RefForbidden

CheckRefFormat(name) ==
    LET cs == SplitSlash(name, <<>>)
    IN  /\ name # <<>>
        /\ Head(name) # "-"
        /\ Last(name) # "."
        /\ name # <<"@">>
        /\ \A k \in 1..Len(cs) : RefComponentOk(cs[k])

\* wt_path = wt_root / f"{slug}-{suffix}"
WorktreePath(wt_root, slug, suffix) == Append(wt_root, slug \o <<"-">> \o suffix)

----------------------------------------------------------------------------
(* git, as the manager's commands see it *)

N_HEAD == <<"H", "E", "A", "D">>
B_main == <<"m">>
B_other == <<"o">>
RefsHeads == <<"r", "e", "f", "s", "/", "h", "e", "a", "d", "s", "/">>

\* git rev-parse --show-toplevel, from a working directory
RepoRootOf(cwd) == IF IsPrefix(RepoRoot, cwd) THEN <<RepoRoot>> ELSE <<>>

GitState(ok, d, b, br, reg) ==
    [ok |-> ok, dirs |-> d, broken |-> b, branches |-> br, registry |-> reg]

ValidRef(ref) == ref = N_HEAD \/ ref \in branches

\* git worktree add -b <branch> <path> <base_ref>.  git refuses an existing
\* branch name, a name that is no valid branch name and an invalid base ref
\* before it changes anything; it makes
\* the branch before it looks at the path, so a path that exists, or that the
\* registry still lists, fails the command with the new branch left behind.
\* (git accepts an existing directory that is empty; a directory the manager
\* made at a worktree path holds a checkout or a copy, so none is.)
GitWorktreeAdd(branch, path, base_ref) ==
    IF branch \in branches \/ ~ValidRef(base_ref) \/ ~CheckRefFormat(branch)
        THEN GitState(FALSE, dirs, broken, branches, registry)
    ELSE IF Exists(path) \/ path \in RegisteredPaths
        THEN GitState(FALSE, dirs, broken, branches \cup {branch}, registry)
    ELSE GitState(TRUE, MkdirP(dirs, path), broken, branches \cup {branch},
                  registry \cup {[path |-> path, branch |-> branch]})

\* A removal that drops the registry entry and leaves the files.
GitWorktreeRemoveKeepsFiles(path, envok) ==
    IF path = RepoRoot \/ path \notin RegisteredPaths
        THEN GitState(FALSE, dirs, broken, branches, registry)
    ELSE GitState(TRUE, dirs, broken, branches, {e \in registry : e.path # path})

\* git worktree remove --force <path>.  git refuses the main working tree, a
\* path the registry does not list, and a worktree whose .git is not its link
\* file; envok is whether the host lets the files go.  When it does not (a
\* read-only directory in the tree), the command fails with the directory
\* left and the registry entry dropped all the same.  On success the
\* directory goes with all below it, and the registry entry with it.
GitWorktreeRemove(path, envok) ==
    IF path = RepoRoot \/ path \notin RegisteredPaths
        THEN GitState(FALSE, dirs, broken, branches, registry)
    ELSE IF path \in dirs /\ path \in broken
        THEN GitState(FALSE, dirs, broken, branches, registry)
    ELSE IF path \in dirs /\ ~envok
        THEN GitState(FALSE, dirs, broken, branches, {e \in registry : e.path # path})
    ELSE GitState(TRUE, dirs \ Subtree(dirs, path), broken \ Subtree(broken, path),
                  branches, {e \in registry : e.path # path})

\* A deletion that reports success whatever happened.
GitBranchDeleteReportsSuccess(branch, envok) ==
    IF branch \notin branches \/ (\E e \in registry : e.branch = branch) \/ ~envok
        THEN GitState(TRUE, dirs, broken, branches, registry)
    ELSE GitState(TRUE, dirs, broken, branches \ {branch}, registry)

\* A deletion that does not spare the branches worktrees have checked out.
GitBranchDeleteCheckedOut(branch, envok) ==
    IF branch \notin branches \/ ~envok
        THEN GitState(FALSE, dirs, broken, branches, registry)
    ELSE GitState(TRUE, dirs, broken, branches \ {branch}, registry)

\* git branch -D <branch>.  git refuses a branch it does not have and a
\* branch some registered worktree has checked out; envok is whether the ref
\* could be locked and deleted.
GitBranchDelete(branch, envok) ==
    IF branch \notin branches \/ (\E e \in registry : e.branch = branch) \/ ~envok
        THEN GitState(FALSE, dirs, broken, branches, registry)
    ELSE GitState(TRUE, dirs, broken, branches \ {branch}, registry)

\* git worktree list --porcelain: per entry the path and "refs/heads/<branch>"
GitWorktreeList == {[path |-> e.path, ref |-> RefsHeads \o e.branch] : e \in registry}

\* str.removeprefix
RemovePrefix(s, pre) == IF IsPrefix(pre, s) THEN SubSeq(s, Len(pre) + 1, Len(s)) ELSE s

\* A lookup made once the worktree is removed: the registry lists no entry
\* for its path.
BranchForWorktreeAfterRemoval(worktree_path) == <<>>

\* git_worktree_isolation._branch_for_worktree: the branch of the entry whose
\* path resolves to the worktree path, or None (the empty name).
BranchForWorktree(worktree_path) ==
    LET hits == {e \in GitWorktreeList : Resolve(e.path) = Resolve(worktree_path)}
    IN  IF hits = {} THEN <<>>
        ELSE RemovePrefix((CHOOSE e \in hits : TRUE).ref, RefsHeads)

----------------------------------------------------------------------------
(* Calls and what they return *)

\* The processes that call the manager, each named by its process id.  A
\* process calls again once its call has returned: one process calling twice,
\* or a later process that was given the same id.
Procs == {1, 2}

Rel(segs) == [abs |-> FALSE, segs |-> segs]
Abs(segs) == [abs |-> TRUE, segs |-> segs]

NoArgs == <<>>

\* A call's locals; seq (the call's number in the order the calls started),
\* args, cwd and reg_branch (the branch the registry holds for the path when a
\* remove starts) are kept as history.
NoCall ==
    [op |-> "none", pid |-> 0, seq |-> 0, cwd |-> <<>>, args |-> NoArgs,
     reg_branch |-> <<>>,
     paper_abs |-> <<>>, paper_rel |-> <<>>,
     skill_abs |-> <<>>, skill_rel |-> <<>>, output_dir |-> Rel(<<>>),
     wt_root |-> <<>>, wt_path |-> <<>>, branch |-> <<>>, base_ref |-> <<>>,
     arg_branch |-> <<>>, delete_branch |-> FALSE, ops |-> <<>>]

NoManifest == [allowed_rw |-> <<>>, allowed_ro |-> <<>>, entry_cwd |-> <<>>]

Returned(rc, msg, wt, branch, manifest, deleted) ==
    [rc |-> rc, msg |-> msg, worktree_path |-> wt, branch |-> branch,
     sandbox |-> manifest, deleted_branch |-> deleted]

NoResult == Returned(-1, "none", <<>>, <<>>, NoManifest, FALSE)

\* _fail(message, code): the message is printed and the code returned.
Fail(code, msg) == Returned(code, msg, <<>>, <<>>, NoManifest, FALSE)

Active(q) == pc[q] # "idle"

\* History: the directories below a worktrees root, and the state a create
\* started from.  Another process's change to the repository ends the snapshot.
Below(d, root) == Subtree(d, root) \ {root}

NoSnap ==
    [valid |-> FALSE, wt_root |-> <<>>, wt_path |-> <<>>, branch |-> <<>>, below |-> {},
     branches |-> {}]

SnapKeep(p, nd, nbr, nreg) ==
    [q \in Procs |->
        IF q # p /\ <<nd, nbr, nreg>> # <<dirs, branches, registry>>
            THEN NoSnap ELSE snap[q]]

----------------------------------------------------------------------------
(* create *)

\* A validation that resolves and never compares with the repository root.
ResolveRepoRelativeUnchecked(repo_root, raw) ==
    LET abs_path == Resolve(Join(repo_root, PathOf(raw)))
    IN  OkRel(abs_path, RelativeTo(abs_path, repo_root).rel)

\* git_worktree_isolation._resolve_repo_relative
ResolveRepoRelative(repo_root, raw) ==
    LET path == PathOf(raw)
        abs_path == Resolve(Join(repo_root, path))
        rel == RelativeTo(abs_path, repo_root)
    IN  IF rel.ok THEN OkRel(abs_path, rel.rel)
        ELSE Err("ValueError: Path must be under repository root")

\* A manifest that joins the caller's output directory without resolving it.
BuildSandboxPathsUnresolved(roots, wt_path, paper_rel, skill_rel, output_dir) ==
    LET paper_path == wt_path \o paper_rel
        skill_root == wt_path \o skill_rel
    IN  [allowed_rw |-> <<paper_path, wt_path \o output_dir.segs>>,
         allowed_ro |-> <<Append(skill_root, N_skillmd), Append(skill_root, N_refs),
                          Append(skill_root, N_scripts)>>,
         entry_cwd |-> paper_path]

\* A manifest that grants the payload where it lies in the repository.
BuildSandboxPathsInRepo(roots, wt_path, paper_rel, skill_rel, output_dir) ==
    LET paper_path == ResolveIn(roots, RepoRoot \o paper_rel)
        skill_root == ResolveIn(roots, wt_path \o skill_rel)
    IN  [allowed_rw |-> <<paper_path, ResolveIn(roots, Join(wt_path, PathOf(output_dir)))>>,
         allowed_ro |-> <<Append(skill_root, N_skillmd), Append(skill_root, N_refs),
                          Append(skill_root, N_scripts)>>,
         entry_cwd |-> paper_path]

\* git_worktree_isolation._build_sandbox_paths
BuildSandboxPaths(roots, wt_path, paper_rel, skill_rel, output_dir) ==
    LET paper_path == ResolveIn(roots, wt_path \o paper_rel)
        output_path == ResolveIn(roots, Join(wt_path, PathOf(output_dir)))
        skill_root == ResolveIn(roots, wt_path \o skill_rel)
    IN  [allowed_rw |-> <<paper_path, output_path>>,
         allowed_ro |-> <<Append(skill_root, N_skillmd), Append(skill_root, N_refs),
                          Append(skill_root, N_scripts)>>,
         entry_cwd |-> paper_path]

\* _create, lines 105-131: find the repository, validate the payload and the
\* policy folder, make the worktrees root, derive the branch and the path.
CreateBegin(p, cwd, a) ==
    /\ ~Active(p)
    /\ ncalls' = ncalls + 1
    /\ UNCHANGED <<broken, branches, registry, now, rin, rout, runvars>>
    /\ LET pid == p
           rr == RepoRootOf(cwd)
           repo_root == rr[1]
           paper == ResolveRepoRelative(repo_root, a.paper_dir)
           skill == ResolveRepoRelative(repo_root, a.skill_dir)
           wt_root == Resolve(Join(repo_root, PathOf(a.worktrees_root)))
           slug == SanitizeSlug(PathName(paper.rel))
           suffix == Suffix(now, cwd, pid)
           branch == BranchName(a.branch_prefix, slug, suffix)
           wt_path == WorktreePath(wt_root, slug, suffix)
           failed(r) ==
               /\ pc' = [pc EXCEPT ![p] = "done"]
               /\ call' = [call EXCEPT ![p] = [NoCall EXCEPT !.op = "create", !.pid = pid,
                                                    !.seq = ncalls + 1,
                                                    !.cwd = cwd, !.args = a]]
               /\ result' = [result EXCEPT ![p] = r]
               /\ snap' = [snap EXCEPT ![p] = NoSnap]
               /\ UNCHANGED <<dirs, derived>>
       IN  IF rr = <<>> THEN failed(Fail(2, "Current directory is not a git repository"))
           ELSE IF ~paper.ok \/ ~skill.ok
               THEN failed(Fail(1, "Path must be under repository root"))
           ELSE IF ~IsDir(paper.path) THEN failed(Fail(1, "Paper folder not found"))
           ELSE IF ~IsDir(skill.path) THEN failed(Fail(1, "Skill folder not found"))
           ELSE /\ dirs' = MkdirP(dirs, wt_root)
                /\ pc' = [pc EXCEPT ![p] = "c_add"]
                /\ call' = [call EXCEPT ![p] =
                        [NoCall EXCEPT !.op = "create", !.pid = pid,
                            !.seq = ncalls + 1, !.cwd = cwd, !.args = a,
                            !.paper_abs = paper.path, !.paper_rel = paper.rel,
                            !.skill_abs = skill.path, !.skill_rel = skill.rel,
                            !.output_dir = a.output_dir, !.wt_root = wt_root,
                            !.wt_path = wt_path, !.branch = branch,
                            !.base_ref = a.base_ref, !.ops = <<"mkdir worktrees root">>]]
                /\ result' = [result EXCEPT ![p] = NoResult]
                /\ derived' = derived (+) SetToBag({[branch |-> branch, wt_path |-> wt_path]})
                /\ snap' = [SnapKeep(p, MkdirP(dirs, wt_root), branches, registry)
                                EXCEPT ![p] = [valid |-> TRUE, wt_root |-> wt_root,
                                               wt_path |-> wt_path, branch |-> branch,
                                               below |-> Below(dirs, wt_root),
                                               branches |-> branches]]

\* A create that runs the rollback when git worktree add fails.
CreateAddThenRollback(p) ==
    /\ pc[p] = "c_add"
    /\ LET c == call[p]
           g == GitWorktreeAdd(c.branch, c.wt_path, c.base_ref)
       IN  /\ dirs' = g.dirs
           /\ broken' = g.broken
           /\ branches' = g.branches
           /\ registry' = g.registry
           /\ snap' = SnapKeep(p, g.dirs, g.branches, g.registry)
           /\ call' = [call EXCEPT ![p].ops = Append(@, "git worktree add")]
           /\ pc' = [pc EXCEPT ![p] = IF g.ok THEN "c_stage" ELSE "c_rb_rm"]
    /\ UNCHANGED <<result, now, derived, ncalls, rin, rout, runvars>>

\* _create, lines 133-147: git worktree add; its failure ends the call, with
\* git's own error text as the message ("git worktree add failed" here).
CreateAdd(p) ==
    /\ pc[p] = "c_add"
    /\ LET c == call[p]
           g == GitWorktreeAdd(c.branch, c.wt_path, c.base_ref)
       IN  /\ dirs' = g.dirs
           /\ broken' = g.broken
           /\ branches' = g.branches
           /\ registry' = g.registry
           /\ snap' = [SnapKeep(p, g.dirs, g.branches, g.registry)
                           EXCEPT ![p] = IF g.ok THEN @ ELSE NoSnap]
           /\ call' = [call EXCEPT ![p].ops = Append(@, "git worktree add")]
           /\ IF g.ok
                THEN /\ pc' = [pc EXCEPT ![p] = "c_stage"]
                     /\ UNCHANGED result
                ELSE /\ pc' = [pc EXCEPT ![p] = "done"]
                     /\ result' = [result EXCEPT ![p] = Fail(1, "git worktree add failed")]
    /\ UNCHANGED <<now, derived, ncalls, rin, rout, runvars>>

StageFailures == {"none", "copy paper", "copy skill", "mkdir output"}

\* _create, lines 149-178: copy the payload and the policy folder into the
\* worktree, validate and make the output directory, build the manifest.
\* failAt names the step the host makes raise, if any.
CreateStage(p, failAt) ==
    /\ pc[p] = "c_stage"
    /\ LET c == call[p]
           c1 == CopyTree(dirs, broken, c.paper_abs, c.wt_path \o c.paper_rel,
                          failAt = "copy paper")
           c2 == CopyTree(c1.dirs, c1.broken, c.skill_abs, c.wt_path \o c.skill_rel,
                          failAt = "copy skill")
           roots == CheckoutRootsOf(c2.dirs, registry, c2.broken)
           out == ResolveUnderRootIn(roots, c.wt_path, c.output_dir)
           done3 == <<"copy paper", "copy skill", "mkdir output">>
           raised1 == <<"copy paper: raised">>
           raised2 == <<"copy paper", "copy skill: raised">>
           raised3 == <<"copy paper", "copy skill", "resolve output: raised">>
           raised4 == <<"copy paper", "copy skill", "mkdir output: raised">>
           raised(d, b, steps) ==
               /\ dirs' = d
               /\ broken' = b
               /\ snap' = SnapKeep(p, d, branches, registry)
               /\ pc' = [pc EXCEPT ![p] = "c_rb_rm"]
               /\ call' = [call EXCEPT ![p].ops = @ \o steps]
               /\ UNCHANGED result
       IN  IF ~c1.ok THEN raised(c1.dirs, c1.broken, raised1)
           ELSE IF ~c2.ok THEN raised(c2.dirs, c2.broken, raised2)
           ELSE IF ~out.ok THEN raised(c2.dirs, c2.broken, raised3)
           ELSE IF failAt = "mkdir output" THEN raised(c2.dirs, c2.broken, raised4)
           ELSE /\ dirs' = MkdirP(c2.dirs, out.path)
                /\ broken' = c2.broken
                /\ snap' = SnapKeep(p, MkdirP(c2.dirs, out.path), branches, registry)
                /\ pc' = [pc EXCEPT ![p] = "done"]
                /\ call' = [call EXCEPT ![p].ops = @ \o done3]
                /\ result' = [result EXCEPT ![p] =
                        Returned(0, "ok", c.wt_path, c.branch,
                                 BuildSandboxPaths(roots, c.wt_path, c.paper_rel,
                                                   c.skill_rel, c.output_dir),
                                 FALSE)]
    /\ UNCHANGED <<branches, registry, now, derived, ncalls, rin, rout, runvars>>

\* _create, line 155: the rollback's git worktree remove --force, its outcome ignored.
CreateRollbackRemove(p, envok) ==
    /\ pc[p] = "c_rb_rm"
    /\ LET g == GitWorktreeRemove(call[p].wt_path, envok)
       IN  /\ dirs' = g.dirs
           /\ broken' = g.broken
           /\ registry' = g.registry
           /\ snap' = SnapKeep(p, g.dirs, g.branches, g.registry)
    /\ pc' = [pc EXCEPT ![p] = "c_rb_br"]
    /\ call' = [call EXCEPT ![p].ops = Append(@, "rollback: git worktree remove")]
    /\ UNCHANGED <<branches, result, now, derived, ncalls, rin, rout, runvars>>

\* _create, lines 156-157: the rollback's git branch -D, its outcome ignored;
\* then the call fails.
CreateRollbackBranch(p, envok) ==
    /\ pc[p] = "c_rb_br"
    /\ LET g == GitBranchDelete(call[p].branch, envok)
       IN  /\ branches' = g.branches
           /\ snap' = [SnapKeep(p, g.dirs, g.branches, g.registry) EXCEPT ![p] = NoSnap]
    /\ pc' = [pc EXCEPT ![p] = "done"]
    /\ call' = [call EXCEPT ![p].ops = Append(@, "rollback: git branch -D")]
    /\ result' = [result EXCEPT ![p] = Fail(1, "Failed to prepare worktree payload")]
    /\ UNCHANGED <<dirs, broken, registry, now, derived, ncalls, rin, rout, runvars>>

----------------------------------------------------------------------------
(* remove *)

\* _remove, lines 210-223: find the repository, resolve the path, fail if it
\* does not exist, and settle the branch: the caller's, or the registry's.
RemoveBegin(p, cwd, a) ==
    /\ ~Active(p)
    /\ ncalls' = ncalls + 1
    /\ UNCHANGED <<dirs, broken, branches, registry, now, derived, rin, rout, runvars>>
    /\ LET rr == RepoRootOf(cwd)
           repo_root == rr[1]
           wt_path == Resolve(Join(repo_root, PathOf(a.worktree_path)))
           branch == IF a.branch # <<>> THEN a.branch ELSE BranchForWorktree(wt_path)
           this == [NoCall EXCEPT !.op = "remove", !.pid = p, !.seq = ncalls + 1,
                       !.cwd = cwd, !.args = a,
                       !.wt_path = wt_path, !.reg_branch = BranchForWorktree(wt_path),
                       !.arg_branch = a.branch, !.delete_branch = a.delete_branch]
           failed(r) ==
               /\ pc' = [pc EXCEPT ![p] = "done"]
               /\ call' = [call EXCEPT ![p] = this]
               /\ result' = [result EXCEPT ![p] = r]
               /\ snap' = [snap EXCEPT ![p] = NoSnap]
       IN  IF rr = <<>> THEN failed(Fail(2, "Current directory is not a git repository"))
           ELSE IF ~Exists(wt_path) THEN failed(Fail(1, "Worktree path does not exist"))
           ELSE /\ pc' = [pc EXCEPT ![p] = "r_rm"]
                /\ call' = [call EXCEPT ![p] = [this EXCEPT !.branch = branch]]
                /\ result' = [result EXCEPT ![p] = NoResult]
                /\ snap' = [snap EXCEPT ![p] =
                        IF @.wt_path = wt_path /\ a.delete_branch THEN @ ELSE NoSnap]

\* _remove, lines 224-236: git worktree remove --force; its failure ends the
\* call, with git's own error text as the message.
RemoveWorktree(p, envok) ==
    /\ pc[p] = "r_rm"
    /\ LET c == call[p]
           g == GitWorktreeRemove(c.wt_path, envok)
       IN  /\ dirs' = g.dirs
           /\ broken' = g.broken
           /\ registry' = g.registry
           /\ snap' = SnapKeep(p, g.dirs, g.branches, g.registry)
           /\ call' = [call EXCEPT ![p].ops = Append(@, "git worktree remove")]
           /\ IF ~g.ok
                THEN /\ pc' = [pc EXCEPT ![p] = "done"]
                     /\ result' = [result EXCEPT ![p] = Fail(1, "git worktree remove failed")]
              ELSE IF c.delete_branch /\ c.branch # <<>>
                THEN /\ pc' = [pc EXCEPT ![p] = "r_br"]
                     /\ UNCHANGED result
              ELSE /\ pc' = [pc EXCEPT ![p] = "done"]
                   /\ result' = [result EXCEPT ![p] =
                          Returned(0, "ok", c.wt_path, c.branch, NoManifest, FALSE)]
    /\ UNCHANGED <<branches, now, derived, ncalls, rin, rout, runvars>>

\* _remove, lines 238-251: git branch -D; deleted_branch is its success.
RemoveBranch(p, envok) ==
    /\ pc[p] = "r_br"
    /\ LET c == call[p]
           g == GitBranchDelete(c.branch, envok)
       IN  /\ branches' = g.branches
           /\ snap' = SnapKeep(p, g.dirs, g.branches, g.registry)
           /\ result' = [result EXCEPT ![p] =
                  Returned(0, "ok", c.wt_path, c.branch, NoManifest, g.ok)]
    /\ pc' = [pc EXCEPT ![p] = "done"]
    /\ call' = [call EXCEPT ![p].ops = Append(@, "git branch -D")]
    /\ UNCHANGED <<dirs, broken, registry, now, derived, ncalls, rin, rout, runvars>>

\* main(): the call's exit status has been handed to the caller.
Return(p) ==
    /\ pc[p] = "done"
    /\ pc' = [pc EXCEPT ![p] = "idle"]
    /\ call' = [call EXCEPT ![p] = NoCall]
    /\ result' = [result EXCEPT ![p] = NoResult]
    /\ snap' = [snap EXCEPT ![p] = IF call[p].op = "remove" THEN NoSnap ELSE @]
    /\ UNCHANGED <<fsvars, now, derived, ncalls, rin, rout, runvars>>

----------------------------------------------------------------------------
(* Spec: processes calling create and remove on one repository *)

\* calls started in one behaviour
MaxCalls == 3
\* the last clock second
MaxTime == 1

Cwds == {RepoRoot}
P_cw == <<"c", "w">>
N_bad == <<"z">>

Tick ==
    /\ now < MaxTime
    /\ now' = now + 1
    /\ UNCHANGED <<fsvars, procvars, resolvevars, runvars>>

\* The worktrees root a caller names: the usual one, or an existing worktree.
WorktreesRoots ==
    {Rel(<<N_wts>>)} \cup {Rel(RelativeTo(w, RepoRoot).rel) : w \in LiveWorktrees}

CreateArgs ==
    [paper_dir : {Rel(<<N_papers, N_P1>>)},
     skill_dir : {Rel(<<N_skill>>)},
     worktrees_root : WorktreesRoots,
     branch_prefix : {P_cw},
     base_ref : {N_HEAD},
     output_dir : {Rel(<<N_tmp>>)}]

\* The names a caller of remove knows: those some create derived.
RemoveArgs ==
    [worktree_path : {Abs(d.wt_path) : d \in BagToSet(derived)},
     branch : {<<>>, B_other} \cup {d.branch : d \in BagToSet(derived)},
     delete_branch : BOOLEAN]

Init ==
    /\ dirs = {}
    /\ broken = {}
    /\ branches = {B_main, B_other}
    /\ registry = {[path |-> RepoRoot, branch |-> B_main]}
    /\ now = 0
    /\ pc = [p \in Procs |-> "idle"]
    /\ call = [p \in Procs |-> NoCall]
    /\ result = [p \in Procs |-> NoResult]
    /\ derived = EmptyBag
    /\ snap = [p \in Procs |-> NoSnap]
    /\ ncalls = 0
    /\ rin = NoResolve
    /\ rout = NotCalled
    /\ RunIdle

Next ==
    \/ Tick
    \/ \E p \in Procs, cwd \in Cwds, a \in CreateArgs :
          ncalls < MaxCalls /\ CreateBegin(p, cwd, a)
    \/ \E p \in Procs : CreateAdd(p)
    \/ \E p \in Procs, failAt \in {"none", "copy paper"} : CreateStage(p, failAt)
    \/ \E p \in Procs, envok \in BOOLEAN : CreateRollbackRemove(p, envok)
    \/ \E p \in Procs, envok \in BOOLEAN : CreateRollbackBranch(p, envok)
    \/ \E p \in Procs, cwd \in Cwds, a \in RemoveArgs :
          ncalls < MaxCalls /\ RemoveBegin(p, cwd, a)
    \/ \E p \in Procs, envok \in BOOLEAN : RemoveWorktree(p, envok)
    \/ \E p \in Procs, envok \in BOOLEAN : RemoveBranch(p, envok)
    \/ \E p \in Procs : Return(p)

Spec == Init /\ [][Next]_vars

----------------------------------------------------------------------------
(* SpecCreate: one create call, on any of a wide range of arguments, in a  *)
(* repository that already holds the worktree process 1 made for paper P1  *)
(* in second 0                                                             *)

N_w2 == <<"v">>
P_cx == <<"c", "x">>
WtRoot1 == <<N_repo, N_wts>>
Wt1 == WorktreePath(WtRoot1, N_P1, Suffix(0, RepoRoot, 1))
Branch1 == BranchName(P_cw, N_P1, Suffix(0, RepoRoot, 1))

InitAfterCreate ==
    /\ dirs = {WtRoot1, Wt1, Wt1 \o <<N_papers>>, Wt1 \o <<N_papers, N_P1>>,
               Wt1 \o <<N_skill>>, Wt1 \o <<N_tmp>>}
    /\ broken = {}
    /\ branches = {B_main, B_other, Branch1}
    /\ registry = {[path |-> RepoRoot, branch |-> B_main],
                   [path |-> Wt1, branch |-> Branch1]}
    /\ now = 0
    /\ pc = [p \in Procs |-> "idle"]
    /\ call = [p \in Procs |-> NoCall]
    /\ result = [p \in Procs |-> NoResult]
    /\ derived = SetToBag({[branch |-> Branch1, wt_path |-> Wt1]})
    /\ snap = [p \in Procs |-> NoSnap]
    /\ ncalls = 0

InitCreate ==
    /\ InitAfterCreate
    /\ rin = NoResolve
    /\ rout = NotCalled
    /\ RunIdle

WideCwds == {RepoRoot, OutsideDir}

WideCreateArgs ==
    [paper_dir : {Rel(<<N_papers, N_P1>>), Rel(<<N_papers, N_P2>>),
                  Rel(<<N_papers, N_tmp>>), Rel(<<N_papers, N_file>>),
                  Rel(<<DotDot, N_out, N_P1>>), Rel(<<N_ln, N_P1>>),
                  Rel(<<N_ext, N_P1>>), Rel(<<>>),
                  Abs(<<N_repo, N_papers, N_P1>>), Abs(<<N_out, N_P1>>)},
     skill_dir : {Rel(<<N_skill>>), Rel(<<N_tmp>>), Rel(<<N_ext>>)},
     worktrees_root : {Rel(<<N_wts>>), Rel(<<N_w2>>), Rel(<<N_ext, N_wts>>)},
     branch_prefix : {P_cw, P_cx},
     base_ref : {N_HEAD, N_bad},
     output_dir : {Rel(<<N_tmp>>), Rel(<<N_tmp, N_P1>>), Rel(<<N_papers, DotDot, N_tmp>>),
                   Rel(<<DotDot>>), Rel(<<N_ln>>), Rel(<<N_ext>>), Rel(<<>>),
                   Abs(<<N_tmp>>)}]

NextCreate ==
    \/ \E cwd \in WideCwds, a \in WideCreateArgs : ncalls < 1 /\ CreateBegin(1, cwd, a)
    \/ CreateAdd(1)
    \/ \E failAt \in StageFailures : CreateStage(1, failAt)
    \/ \E envok \in BOOLEAN : CreateRollbackRemove(1, envok)
    \/ \E envok \in BOOLEAN : CreateRollbackBranch(1, envok)

SpecCreate == InitCreate /\ [][NextCreate]_vars

----------------------------------------------------------------------------
(* SpecResolve: one call of a containment resolver on a drawn root and path *)

ResolverRoots == CheckoutRoots

ResolverSegs == {N_papers, N_P1, N_ln, N_ext, N_tmp, DotDot, Dot}

InitResolve ==
    /\ InitAfterCreate
    /\ rin \in [fn : {"_resolve_under_root", "_resolve_under"},
                root : ResolverRoots,
                raw : [abs : BOOLEAN, segs : SeqsUpTo(ResolverSegs, MaxLen)]]
    /\ rout = NotCalled
    /\ RunIdle

CallResolveUnderRoot ==
    /\ rout = NotCalled
    /\ rin.fn = "_resolve_under_root"
    /\ rout' = ResolveUnderRoot(rin.root, rin.raw)
    /\ UNCHANGED <<fsvars, now, procvars, rin, runvars>>

CallResolveUnder ==
    /\ rout = NotCalled
    /\ rin.fn = "_resolve_under"
    /\ rout' = ResolveUnder(rin.root, rin.raw)
    /\ UNCHANGED <<fsvars, now, procvars, rin, runvars>>

NextResolve == CallResolveUnderRoot \/ CallResolveUnder

SpecResolve == InitResolve /\ [][NextResolve]_vars

----------------------------------------------------------------------------
(* C1: the containment resolvers *)

Segments(raw) == {raw.segs[k] : k \in 1..Len(raw.segs)}

\* A path no component of which is "." or "..", or is a symbolic link.
Canonical(p) ==
    \A k \in 1..Len(p) :
        p[k] \notin {Dot, DotDot} /\ ~IsLink(CheckoutRoots, SubSeq(p, 1, k))

\* Where root/p leads once ".." is applied and every link is followed.
CanonicalOf(root, raw) == Resolve(Join(root, PathOf(raw)))

ResolverCalled == rout # NotCalled

\* C1 as the specification words it: a resolver fails whenever p is absolute
\* or has a ".." segment, and succeeds with a path equal to or below root
\* whenever p canonicalizes under root.
C1_AsStated ==
    ResolverCalled =>
        /\ (rin.raw.abs \/ DotDot \in Segments(rin.raw)) => ~rout.ok
        /\ IsPrefix(rin.root, CanonicalOf(rin.root, rin.raw)) =>
               rout.ok /\ IsPrefix(rin.root, rout.path)

\* C1: a containment resolver fails when p is absolute, and when the
\* canonical form of root/p (".." applied, symbolic links followed) is not
\* root or below it; on every other p, with or without ".." segments, it
\* succeeds and returns that canonical form, an absolute path equal to or
\* below root with no "..", no "." and no symbolic link left in it.
C1_ContainmentAfterCanonicalization ==
    ResolverCalled =>
        LET canon == CanonicalOf(rin.root, rin.raw)
        IN  /\ rin.raw.abs => ~rout.ok
            /\ ~IsPrefix(rin.root, canon) => ~rout.ok
            /\ (~rin.raw.abs /\ IsPrefix(rin.root, canon)) =>
                   /\ rout.ok
                   /\ rout.path = canon
                   /\ IsPrefix(rin.root, rout.path)
                   /\ Canonical(rout.path)
            /\ (rout.ok /\ rin.fn = "_resolve_under") => rin.root \o rout.rel = rout.path

\* A path with a ".." segment that crosses a symbolic link is accepted inside
\* a worktree.
C1_DotDotAccepted ==
    /\ ResolverCalled
    /\ rout.ok
    /\ rin.root = Wt1
    /\ rin.raw.segs = <<N_ln, DotDot, N_tmp>>
    /\ rout.path = Wt1 \o <<N_tmp>>


----------------------------------------------------------------------------
(* C2: the derived names *)

\* C2: any two create calls derive distinct branch names and distinct
\* worktree paths, and two live worktrees never share a branch or a path.
C2_DerivedNamesDistinct ==
    /\ \A d \in BagToSet(derived) : CopiesIn(d, derived) = 1
    /\ \A d1, d2 \in BagToSet(derived) :
          d1 # d2 => d1.branch # d2.branch /\ d1.wt_path # d2.wt_path
    /\ \A e1, e2 \in registry : e1 # e2 => e1.branch # e2.branch /\ e1.path # e2.path

----------------------------------------------------------------------------
(* C3: the rollback *)

CopyRaised(p) ==
    \E k \in 1..Len(call[p].ops) :
        call[p].ops[k] \in {"copy paper: raised", "copy skill: raised"}

\* C3: when a copy fails after the worktree and the branch were made, create
\* fails with the payload-staging error and, once it has returned, neither
\* the worktree directory nor the branch exists.
C3_RollbackLeavesNothing ==
    \A p \in Procs :
        (pc[p] = "done" /\ call[p].op = "create" /\ CopyRaised(p)) =>
            /\ result[p].rc = 1
            /\ result[p].msg = "Failed to prepare worktree payload"
            /\ call[p].wt_path \notin dirs
            /\ call[p].wt_path \notin RegisteredPaths
            /\ call[p].branch \notin branches

----------------------------------------------------------------------------
(* C4: create, then remove *)

\* Process p's remove of the worktree its own create made, asked to delete
\* the branch, has returned success, and nothing else touched the repository
\* since that create began.
RemovedAfterCreate(p) ==
    /\ snap[p].valid
    /\ pc[p] = "done"
    /\ call[p].op = "remove"
    /\ call[p].wt_path = snap[p].wt_path
    /\ call[p].delete_branch
    /\ result[p].rc = 0

Restored(p) ==
    /\ Below(dirs, snap[p].wt_root) = snap[p].below
    /\ branches = snap[p].branches

\* C4 as the specification words it: a successful create followed at once by
\* remove of the returned path with deleteBranch=true restores the
\* directories under the worktrees root and the branches.
C4_AsStated == \A p \in Procs : RemovedAfterCreate(p) => Restored(p)

\* C4: a successful create followed at once by a successful remove of the
\* returned path with deleteBranch=true restores the directories under the
\* worktrees root, and restores the branches when the remove reports
\* branchDeleted=true for the branch create returned (branchName omitted or
\* equal to it); otherwise the created branch is what remains.
C4_RestoresWhenBranchDeleted ==
    \A p \in Procs :
        RemovedAfterCreate(p) =>
            /\ Below(dirs, snap[p].wt_root) = snap[p].below
            /\ (result[p].deleted_branch /\ call[p].branch = snap[p].branch) => Restored(p)
            /\ branches \subseteq snap[p].branches \cup {snap[p].branch}
            /\ snap[p].branches \ branches \subseteq {call[p].branch}

C4_CreateRemoveRoundTrip ==
    \E p \in Procs :
        /\ RemovedAfterCreate(p)
        /\ result[p].deleted_branch
        /\ call[p].branch = snap[p].branch
        /\ call[p].args.branch = <<>>
        /\ Restored(p)

----------------------------------------------------------------------------
(* C5: remove of a path that does not exist *)

RemoveStarts(p) == pc[p] = "idle" /\ pc'[p] # "idle" /\ call'[p].op = "remove"

WorktreeRemoved(p) ==
    /\ pc[p] = "r_rm"
    /\ \/ pc'[p] = "r_br"
       \/ pc'[p] = "done" /\ result'[p].rc = 0

\* C5: a remove of a path that does not exist fails with the not-found error
\* and changes nothing; and a remove that succeeds leaves its path not
\* existing, so that every later remove of it fails with that error.
C5_RemoveMissingFails ==
    [][\A p \in Procs :
          /\ (RemoveStarts(p) /\ call'[p].wt_path \notin dirs \cup StaticDirs \cup StaticFiles) =>
                /\ pc'[p] = "done"
                /\ result'[p].rc = 1
                /\ result'[p].msg = "Worktree path does not exist"
                /\ UNCHANGED fsvars
          /\ WorktreeRemoved(p) =>
                call[p].wt_path \notin dirs' \cup StaticDirs \cup StaticFiles]_vars

\* A remove of a path reports success, and a remove of the same path started
\* later has failed with the not-found error.
C5_SecondRemoveFails ==
    \E p, q \in Procs :
        /\ pc[p] = "done" /\ call[p].op = "remove" /\ result[p].rc = 0
        /\ pc[q] = "done" /\ call[q].op = "remove"
        /\ call[q].wt_path = call[p].wt_path
        /\ call[q].seq > call[p].seq
        /\ result[q].rc = 1
        /\ result[q].msg = "Worktree path does not exist"

----------------------------------------------------------------------------
(* C6: what remove reports about the branch *)

\* C6: once the worktree is removed, a failed branch deletion still gives
\* exit status 0, with branchDeleted=false; branchDeleted is true only if a
\* branch was identified, its deletion was asked for, and the deletion
\* took the branch away.
C6_BranchDeletedReported ==
    [][\A p \in Procs :
          /\ (pc[p] = "r_br" /\ pc'[p] # "r_br") =>
                /\ pc'[p] = "done"
                /\ result'[p].rc = 0
                /\ result'[p].deleted_branch =
                       (call[p].branch \in branches /\ call[p].branch \notin branches')
          /\ (pc[p] # "done" /\ pc'[p] = "done" /\ call'[p].op = "remove"
                /\ result'[p].deleted_branch) =>
                /\ pc[p] = "r_br"
                /\ call'[p].delete_branch
                /\ call'[p].branch # <<>>
                /\ call'[p].branch \in branches
                /\ call'[p].branch \notin branches']_vars

C6_DeletionFailedRemoveSucceeded ==
    \E p \in Procs :
        /\ pc[p] = "done" /\ call[p].op = "remove"
        /\ call[p].delete_branch
        /\ call[p].branch # <<>>
        /\ Last(call[p].ops) = "git branch -D"
        /\ result[p].rc = 0
        /\ ~result[p].deleted_branch
        /\ call[p].branch \in branches
        /\ call[p].wt_path \notin dirs

----------------------------------------------------------------------------
(* C7: what remove leaves alone *)

RemoveActs(p) == pc[p] \in {"r_rm", "r_br"} /\ pc'[p] # pc[p]

\* The worktrees, the main one included, other than the one p removes.
OtherWorktrees(p) == {e \in registry : e.path # call[p].wt_path /\ IsDir(e.path)}

\* C7 as the specification words it: a remove leaves every other worktree's
\* directory, registry entry and branch as they were, and deletes no branch
\* but the one of the worktree it removes.
C7_AsStated ==
    [][\A p \in Procs :
          RemoveActs(p) =>
              /\ \A e \in OtherWorktrees(p) :
                    /\ e \in registry'
                    /\ e.path \in dirs' \cup StaticDirs
                    /\ e.branch \in branches'
              /\ branches \ branches' \subseteq {call[p].reg_branch}]_vars

\* C7: a remove takes away only directories at or below the path it was
\* given and only that path's registry entry, so every other worktree keeps
\* its registry entry and its branch, and keeps its directory unless that lies
\* inside the removed one; the only branch the call can delete is the one it
\* identified (branchName if given, else the registry's branch for the
\* path), and git deletes it only if no registered worktree has it checked
\* out.
C7_RemoveFrame ==
    [][\A p \in Procs :
          RemoveActs(p) =>
              /\ dirs' \subseteq dirs
              /\ dirs \ dirs' \subseteq Subtree(dirs, call[p].wt_path)
              /\ registry' \subseteq registry
              /\ \A e \in registry \ registry' : e.path = call[p].wt_path
              /\ \A e \in OtherWorktrees(p) :
                    /\ e \in registry'
                    /\ e.branch \in branches'
                    /\ ~IsPrefix(call[p].wt_path, e.path) =>
                          e.path \in dirs' \cup StaticDirs
              /\ branches' \subseteq branches
              /\ branches \ branches' \subseteq {call[p].branch}
              /\ branches # branches' => call[p].delete_branch
              /\ \A b \in branches \ branches' : \A e \in registry' : e.branch # b]_vars

\* A remove given another branch's name has deleted that branch while
\* another task's worktree is live, and the other task's branch is still there.
C7_NamedBranchDeleted ==
    \E p \in Procs :
        /\ pc[p] = "done" /\ call[p].op = "remove" /\ result[p].rc = 0
        /\ result[p].deleted_branch
        /\ call[p].branch # call[p].reg_branch
        /\ call[p].branch \notin branches
        /\ \E e \in registry : e.path \in dirs /\ e.branch \in branches

----------------------------------------------------------------------------
(* C8: create's validation *)

CreateStarts(p) == pc[p] = "idle" /\ pc'[p] # "idle" /\ call'[p].op = "create"

\* A caller-written path that leads to an existing directory at or below the
\* repository root.
ExistingDirUnderRoot(raw) ==
    LET canon == CanonicalOf(RepoRoot, raw)
    IN  IsPrefix(RepoRoot, canon) /\ canon \in StaticDirs \cup dirs

InputErrors ==
    {"Path must be under repository root", "Paper folder not found", "Skill folder not found"}

\* C8: in a repository, create goes on past validation exactly when the
\* payload path and the policy path each lead to an existing directory at or
\* below the repository root; otherwise it fails with an input error and
\* has created no directory, worktree or branch.  Outside a repository it
\* fails likewise, with exit status 2.
C8_ValidationBeforeEffects ==
    [][\A p \in Procs :
          CreateStarts(p) =>
              LET a == call'[p].args
                  valid == ExistingDirUnderRoot(a.paper_dir) /\ ExistingDirUnderRoot(a.skill_dir)
              IN  IF ~IsPrefix(RepoRoot, call'[p].cwd)
                      THEN /\ pc'[p] = "done"
                           /\ result'[p].rc = 2
                           /\ UNCHANGED fsvars
                  ELSE IF valid THEN pc'[p] = "c_add"
                  ELSE /\ pc'[p] = "done"
                       /\ result'[p].rc = 1
                       /\ result'[p].msg \in InputErrors
                       /\ UNCHANGED fsvars]_vars

\* A payload path that leads through a symbolic link to a directory outside
\* the repository was refused, though the worktrees root named was yet to be made.
C8_OutsidePayloadRefused ==
    /\ pc[1] = "done" /\ call[1].op = "create"
    /\ call[1].args.paper_dir = Rel(<<N_ext, N_P1>>)
    /\ call[1].args.skill_dir = Rel(<<N_skill>>)
    /\ call[1].args.worktrees_root = Rel(<<N_w2>>)
    /\ result[1].rc = 1
    /\ result[1].msg = "Path must be under repository root"
    /\ <<N_repo, N_w2>> \notin dirs

----------------------------------------------------------------------------
(* C9: a failed git worktree add *)

AddFails(p) ==
    /\ pc[p] = "c_add"
    /\ pc'[p] # "c_add"
    /\ [path |-> call[p].wt_path, branch |-> call[p].branch] \notin registry'

\* C9: when git worktree add fails, create fails with the creation error and
\* does nothing more: no copy, no output directory, no rollback command,
\* and every worktree and branch there was is still there.
C9_AddFailureEndsCreate ==
    [][\A p \in Procs :
          AddFails(p) =>
              /\ pc'[p] = "done"
              /\ result'[p].rc = 1
              /\ result'[p].msg = "git worktree add failed"
              /\ call'[p].ops = <<"mkdir worktrees root", "git worktree add">>
              /\ dirs' = dirs
              /\ broken' = broken
              /\ registry' = registry
              /\ branches \subseteq branches']_vars

\* The derived path was that of the worktree made earlier: the add failed
\* and that worktree, its registry entry and its branch are as they were.
C9_AddFailedOnExistingPath ==
    /\ pc[1] = "done" /\ call[1].op = "create"
    /\ result[1].msg = "git worktree add failed"
    /\ call[1].wt_path = Wt1
    /\ call[1].branch # Branch1
    /\ Wt1 \in dirs
    /\ [path |-> Wt1, branch |-> Branch1] \in registry
    /\ Branch1 \in branches

----------------------------------------------------------------------------
(* C10: the manifest *)

CreateSucceeded(p) == pc[p] = "done" /\ call[p].op = "create" /\ result[p].rc = 0

\* The repo-relative location of a path the caller named.
RepoRel(raw) == RelativeTo(CanonicalOf(RepoRoot, raw), RepoRoot).rel

\* C10 as the specification words it: the manifest of a successful create
\* holds worktree/payloadRel and worktree/outputDir as its read-write set,
\* the three policy paths as its read-only set, and worktree/payloadRel as
\* the working directory.
C10_AsStated ==
    \A p \in Procs :
        CreateSucceeded(p) =>
            LET wt == result[p].worktree_path
                a == call[p].args
                m == result[p].sandbox
                policy == wt \o RepoRel(a.skill_dir)
            IN  /\ m.allowed_rw = <<wt \o RepoRel(a.paper_dir), wt \o PathOf(a.output_dir).segs>>
                /\ m.allowed_ro = <<Append(policy, N_skillmd), Append(policy, N_refs),
                                    Append(policy, N_scripts)>>
                /\ m.entry_cwd = wt \o RepoRel(a.paper_dir)

\* C10: the manifest of a successful create holds, as absolute paths in
\* canonical form inside the worktree, worktree/payloadRel and the canonical
\* form of worktree/outputDir (".." applied, symbolic links followed) as its
\* read-write set, the three policy paths as its read-only set, and
\* worktree/payloadRel as the working directory; the output entry is
\* worktree/outputDir as written when outputDir is already canonical.
C10_ManifestCanonical ==
    \A p \in Procs :
        CreateSucceeded(p) =>
            LET wt == result[p].worktree_path
                a == call[p].args
                m == result[p].sandbox
                policy == wt \o RepoRel(a.skill_dir)
                literal == wt \o PathOf(a.output_dir).segs
            IN  /\ wt = call[p].wt_path
                /\ Len(m.allowed_rw) = 2
                /\ m.allowed_rw[1] = wt \o RepoRel(a.paper_dir)
                /\ m.allowed_rw[2] = Resolve(literal)
                /\ Canonical(literal) => m.allowed_rw[2] = literal
                /\ \A k \in 1..2 : IsPrefix(wt, m.allowed_rw[k]) /\ Canonical(m.allowed_rw[k])
                /\ m.allowed_ro = <<Append(policy, N_skillmd), Append(policy, N_refs),
                                    Append(policy, N_scripts)>>
                /\ m.entry_cwd = wt \o RepoRel(a.paper_dir)

\* Payload ps/P1 and output ps/../t: the read-write set holds <worktree>/t.
C10_OutputCanonicalized ==
    /\ CreateSucceeded(1)
    /\ call[1].args.paper_dir = Rel(<<N_papers, N_P2>>)
    /\ call[1].args.output_dir = Rel(<<N_papers, DotDot, N_tmp>>)
    /\ result[1].sandbox.allowed_rw =
           <<call[1].wt_path \o <<N_papers, N_P2>>, call[1].wt_path \o <<N_tmp>>>>
    /\ call[1].wt_path \o <<N_tmp>> \in dirs


----------------------------------------------------------------------------
(* C11: the manifest stays inside the worktree *)

ManifestPaths(m) ==
    {m.allowed_rw[k] : k \in 1..Len(m.allowed_rw)}
        \cup {m.allowed_ro[k] : k \in 1..Len(m.allowed_ro)}
        \cup {m.entry_cwd}

----------------------------------------------------------------------------
(* The sandbox gate (worker_sandbox.py): what it reads on the host *)

N_workspace == <<"w", "o", "r", "k", "s", "p", "a", "c", "e">>
N_output == <<"o", "u", "t", "p", "u", "t">>
N_proc == <<"p", "r", "o", "c">>
N_dev == <<"d", "e", "v">>
N_tmpfs == <<"t", "m", "p">>
N_usr == <<"u", "s", "r">>
N_bin == <<"b", "i", "n">>
N_sbin == <<"s", "b", "i", "n">>
N_lib == <<"l", "i", "b">>
N_lib64 == <<"l", "i", "b", "6", "4">>
N_etc == <<"e", "t", "c">>
N_opt == <<"o", "p", "t">>

SYSTEM_RO_PATHS ==
    << <<N_usr>>, <<N_bin>>, <<N_sbin>>, <<N_lib>>, <<N_lib64>>, <<N_etc>>, <<N_opt>> >>

\* Path.cwd() of the gate's process
RunCwd == RepoRoot

\* Besides the links every checkout tracks, the host may hold symbolic links
\* to the directory outside the repository (host.links).  LinkedTo(p) is
\* where the kernel lands when it opens p, a path whose parent is resolved.
LinkedTo(p) == IF p \in host.links THEN OutsideDir ELSE p

\* Path.is_dir(), Path.is_file() and Path.exists(): all follow links.
PathIsDir(p) == IsDir(LinkedTo(p))
PathIsFile(p) == LinkedTo(p) \in StaticFiles \cup host.files
PathExists(p) == PathIsDir(p) \/ PathIsFile(p)

\* A gate whose failures all print one message.
FailWithOneMessage(label, text, path) == [label |-> "", text |-> "failed", path |-> <<>>]

\* worker_sandbox._fail: the message printed to stderr (the label of the
\* path at fault, the text, the path named); the exit status is always 1.
FailWith(label, text, path) == [label |-> label, text |-> text, path |-> path]

NoFailure == [label |-> "", text |-> "", path |-> <<>>]

DashDash == <<"-", "-">>

\* A gate that takes the separator for the command.
WorkerCommandKeepsSeparator(worker_cmd) == worker_cmd

\* main, lines 145-147: one leading "--" is dropped.
WorkerCommand(worker_cmd) ==
    IF worker_cmd # <<>> /\ Head(worker_cmd) = DashDash THEN Tail(worker_cmd) ELSE worker_cmd

\* A gate that does not look at the policy bundle.
PolicyCheckSkipped(skill_abs) == NoFailure

\* main, lines 133-141: the three sub-paths of the policy bundle
PolicyCheck(skill_abs) ==
    LET skill_file == Append(skill_abs, N_skillmd)
        references_dir == Append(skill_abs, N_refs)
        scripts_dir == Append(skill_abs, N_scripts)
    IN  IF ~PathIsFile(skill_file) THEN FailWith("", "Missing skill file", skill_file)
        ELSE IF ~PathIsDir(references_dir)
            THEN FailWith("", "Missing references directory", references_dir)
        ELSE IF ~PathIsDir(scripts_dir)
            THEN FailWith("", "Missing scripts directory", scripts_dir)
        ELSE NoFailure

\* What the checks of main leave: whether the call goes on, the message if
\* not, whether the output directory was made, and main's locals.
Checked(ok, message, made, locals) ==
    [ok |-> ok, message |-> message, made |-> made, locals |-> locals]

\* The text of a ValueError of _resolve_under
ResolveUnderText(r) ==
    IF r.err = "ValueError: escapes" THEN "escapes worktree"
    ELSE "must be a relative path under worktree"

\* main, lines 109-149: every check before the command is built, in the
\* order of the code.  The output directory is made after the path checks and
\* before the worker command is looked at.
Validate(a) ==
    LET wt == Resolve(Join(RunCwd, PathOf(a.worktree_path)))
        paper == ResolveUnder(wt, a.paper_dir_relpath)
        skill == ResolveUnder(wt, a.skill_dir_relpath)
        output == ResolveUnder(wt, a.output_dir)
        policy == PolicyCheck(skill.path)
        worker_cmd == WorkerCommand(a.worker_cmd)
        locals == [worktree_path |-> wt,
                   paper_abs |-> paper.path, paper_rel |-> paper.rel,
                   skill_abs |-> skill.path, skill_rel |-> skill.rel,
                   output_abs |-> output.path, output_rel |-> output.rel,
                   worker_cmd |-> worker_cmd]
        fail(label, text, path) == Checked(FALSE, FailWith(label, text, path), FALSE, NoLocals)
    IN  IF ~host.bwrap THEN fail("", "bubblewrap (bwrap) not found in PATH.", <<>>)
        ELSE IF ~PathExists(wt) THEN fail("Worktree", "path does not exist", wt)
        ELSE IF ~PathIsDir(wt) THEN fail("", "Worktree path is not a directory", wt)
        ELSE IF ~paper.ok
            THEN fail("Paper dir", ResolveUnderText(paper), a.paper_dir_relpath.segs)
        ELSE IF ~skill.ok
            THEN fail("Skill dir", ResolveUnderText(skill), a.skill_dir_relpath.segs)
        ELSE IF ~output.ok
            THEN fail("Output dir", ResolveUnderText(output), a.output_dir.segs)
        ELSE IF ~PathIsDir(paper.path) THEN fail("", "Paper directory not found", paper.path)
        ELSE IF ~PathIsDir(skill.path) THEN fail("", "Skill directory not found", skill.path)
        ELSE IF policy # NoFailure THEN Checked(FALSE, policy, FALSE, NoLocals)
        ELSE IF worker_cmd = <<>>
            THEN Checked(FALSE,
                         FailWith("", "Missing worker command. Use -- <command> <args...>", <<>>),
                         TRUE, locals)
        ELSE Checked(TRUE, NoFailure, TRUE, locals)

----------------------------------------------------------------------------
(* The sandbox gate: the command it builds *)

\* A mapping that puts every host path at the workspace root.
DstFlat(rel) == <<N_workspace>>

\* f"/workspace/{rel}": rel is the posix form of a path relative to the
\* worktree, "." for the worktree itself, and bwrap reads "/workspace/." as
\* /workspace.
Dst(rel) == <<N_workspace>> \o rel

\* A gate that makes the leaf directory alone.
WorkspaceDirsForLeaf(rel) == {<<N_workspace>> \o rel}

\* worker_sandbox._workspace_dirs_for
WorkspaceDirsFor(rel) == {<<N_workspace>> \o SubSeq(rel, 1, k) : k \in 0..Len(rel)}

\* The characters of the paths, in code point order
Ascii ==
    <<"-", ".", "/", "0", "1", "2", "3", "4", "5", "6", "7", "8", "9",
      "A", "B", "C", "D", "E", "F", "G", "H", "I", "J", "K", "L", "M", "N", "O", "P",
      "Q", "R", "S", "T", "U", "V", "W", "X", "Y", "Z", "_",
      "a", "b", "c", "d", "e", "f", "g", "h", "i", "j", "k", "l", "m", "n", "o", "p",
      "q", "r", "s", "t", "u", "v", "w", "x", "y", "z">>

Rank(c) == CHOOSE i \in 1..Len(Ascii) : Ascii[i] = c

\* str(path) of an absolute path
RECURSIVE Posix(_)
Posix(p) == IF p = <<>> THEN <<>> ELSE <<"/">> \o Head(p) \o Posix(Tail(p))

\* a < b for two strings
RECURSIVE StrLess(_, _)
StrLess(a, b) ==
    IF b = <<>> THEN FALSE
    ELSE IF a = <<>> THEN TRUE
    ELSE IF Head(a) = Head(b) THEN StrLess(Tail(a), Tail(b))
    ELSE Rank(Head(a)) < Rank(Head(b))

\* worker_sandbox._unique_sorted_dirs: by (p.count("/"), p)
RECURSIVE UniqueSortedDirs(_)
UniqueSortedDirs(paths) ==
    IF paths = {} THEN <<>>
    ELSE LET less(p, q) == Len(p) < Len(q) \/ (Len(p) = Len(q) /\ StrLess(Posix(p), Posix(q)))
             first == CHOOSE p \in paths : \A q \in paths \ {p} : less(p, q)
         IN  <<first>> \o UniqueSortedDirs(paths \ {first})

Mount(op, src, dst) == [op |-> op, src |-> src, dst |-> dst]

\* main, lines 183-185: the system directories the host has, in the order of
\* SYSTEM_RO_PATHS
SystemMounts ==
    LET present == SelectSeq(SYSTEM_RO_PATHS, LAMBDA h : h \in host.sys)
    IN  [k \in 1..Len(present) |-> Mount("--ro-bind", present[k], present[k])]

\* main, lines 151-196: the bwrap command, as its switches, its setenv
\* pairs, its mount operations in command order, its --chdir and the worker
\* command that ends it.
BwrapCommand(l, cwd_mode) ==
    LET paper_dst == Dst(l.paper_rel)
        output_dst == Dst(l.output_rel)
        skill_base_dst == Dst(l.skill_rel)
        mkdir_targets == WorkspaceDirsFor(l.paper_rel) \cup WorkspaceDirsFor(l.output_rel)
                             \cup WorkspaceDirsFor(l.skill_rel)
        sorted == UniqueSortedDirs(mkdir_targets)
    IN  [switches |-> <<"--die-with-parent", "--new-session">>,
         setenv |-> <<[name |-> "CFST_SANDBOX", value |-> "1"],
                      [name |-> "HOME", value |-> "/tmp"]>>,
         mounts |-> <<Mount("--proc", <<>>, <<N_proc>>), Mount("--dev", <<>>, <<N_dev>>),
                      Mount("--tmpfs", <<>>, <<N_tmpfs>>)>>
                    \o SystemMounts
                    \o [k \in 1..Len(sorted) |-> Mount("--dir", <<>>, sorted[k])]
                    \o <<Mount("--bind", l.paper_abs, paper_dst),
                         Mount("--bind", l.output_abs, output_dst),
                         Mount("--ro-bind", Append(l.skill_abs, N_skillmd),
                               Append(skill_base_dst, N_skillmd)),
                         Mount("--ro-bind", Append(l.skill_abs, N_refs),
                               Append(skill_base_dst, N_refs)),
                         Mount("--ro-bind", Append(l.skill_abs, N_scripts),
                               Append(skill_base_dst, N_scripts))>>,
         chdir |-> IF cwd_mode = "workspace" THEN <<N_workspace>> ELSE paper_dst,
         worker_cmd |-> l.worker_cmd]

----------------------------------------------------------------------------
(* bwrap, as the command the gate builds sees it *)

\* bwrap gives the sandbox a new process namespace when it is told to
\* (--unshare-pid, --unshare-all); otherwise the sandbox is in the caller's.
PidNamespace(cmd) ==
    IF \E k \in 1..Len(cmd.switches) : cmd.switches[k] \in {"--unshare-pid", "--unshare-all"}
        THEN "new"
        ELSE "caller"

\* bwrap starts from the caller's environment, or from an empty one when it
\* is told to (--clearenv), and sets each --setenv pair over it.
SandboxEnvironment(cmd, env) ==
    LET set == {cmd.setenv[k] : k \in 1..Len(cmd.setenv)}
        cleared == \E k \in 1..Len(cmd.switches) : cmd.switches[k] = "--clearenv"
        kept == IF cleared THEN {} ELSE {e \in env : \A s \in set : s.name # e.name}
    IN  kept \cup set

IsBind(m) == m.op \in {"--bind", "--ro-bind"}

\* The mount operations act in command order on an empty root, so a sandbox
\* path shows what the last operation at or above it put there.  A bind
\* mount shows the host location its source leads to (mount follows links)
\* unless a later operation covers its destination.
HostVisible(cmd) ==
    LET n == Len(cmd.mounts)
        covered(k) == \E j \in (k + 1)..n : IsPrefix(cmd.mounts[j].dst, cmd.mounts[k].dst)
    IN  {LinkedTo(cmd.mounts[k].src) :
             k \in {j \in 1..n : IsBind(cmd.mounts[j]) /\ ~covered(j)}}

\* subprocess.run(cmd, check=False): one child; bwrap sets the sandbox up,
\* runs the worker command in it and exits with the worker's status.
Children(cmd, status) ==
    <<[cmd |-> cmd, pidns |-> PidNamespace(cmd),
       env |-> SandboxEnvironment(cmd, host.env),
       visible |-> HostVisible(cmd), status |-> status]>>

\* A gate that reports only success or failure.
ReturnCodeNormalised(status) == IF status = 0 THEN 0 ELSE 1

\* proc.returncode, returned by main and given to SystemExit
ReturnCode(status) == status

----------------------------------------------------------------------------
(* The sandbox gate: its steps *)

\* main, lines 105-149
RunCheck ==
    /\ run.pc = "start"
    /\ LET v == Validate(run.args)
       IN  /\ dirs' = IF v.made THEN MkdirP(dirs, v.locals.output_abs) ELSE dirs
           /\ run' = [run EXCEPT !.pc = IF v.ok THEN "ready" ELSE "failed",
                                 !.locals = v.locals,
                                 !.message = v.message,
                                 !.code = IF v.ok THEN 0 ELSE 1]
    /\ UNCHANGED <<broken, branches, registry, now, procvars, resolvevars, host, execs, san, ckpt>>

\* main, lines 151-199: the command is built and run, and the child's status
\* is returned; status is what the worker exits with.
RunLaunch(status) ==
    /\ run.pc = "ready"
    /\ execs' = execs \o Children(BwrapCommand(run.locals, run.args.cwd_mode), status)
    /\ run' = [run EXCEPT !.pc = "done", !.code = ReturnCode(status)]
    /\ UNCHANGED <<fsvars, now, procvars, resolvevars, host, san, ckpt>>

----------------------------------------------------------------------------
(* SpecRun: one call of the gate, on any of a range of arguments and hosts, *)
(* for the worktree process 1 made for paper P1                             *)

ExitStatuses == {0, 1, 3}

W_cmd == <<"w">>
W_arg == <<"a">>

\* The ambient environment of the gate's caller
CallerEnvs ==
    { {[name |-> "HOME", value |-> "/home/u"]},
      {[name |-> "HOME", value |-> "/home/u"], [name |-> "API_KEY", value |-> "k"]} }

SkillDir1 == Wt1 \o <<N_skill>>

\* What the worktree's policy folder holds: all of the bundle, the bundle
\* less one of its parts, or the bundle with references a link to the
\* directory outside the repository.
PolicyStates == {"complete", "no skill file", "no references", "no scripts", "references linked"}

SystemDirs ==
    { {<<N_usr>>, <<N_bin>>, <<N_lib>>, <<N_etc>>},
      {<<N_usr>>, <<N_bin>>, <<N_sbin>>, <<N_lib>>, <<N_lib64>>, <<N_etc>>, <<N_opt>>} }

RunHost(ps, b, sys, env) ==
    [bwrap |-> b,
     files |-> IF ps = "no skill file" THEN {} ELSE {Append(SkillDir1, N_skillmd)},
     links |-> IF ps = "references linked" THEN {Append(SkillDir1, N_refs)} ELSE {},
     sys |-> sys,
     env |-> env]

RunDirs(ps) ==
    {WtRoot1, Wt1, Wt1 \o <<N_papers>>, Wt1 \o <<N_papers, N_P1>>, SkillDir1, Wt1 \o <<N_tmp>>}
        \cup (IF ps \in {"no references", "references linked"}
                  THEN {} ELSE {Append(SkillDir1, N_refs)})
        \cup (IF ps = "no scripts" THEN {} ELSE {Append(SkillDir1, N_scripts)})

RunArgs ==
    [worktree_path : {Abs(Wt1), Rel(<<N_wts, Last(Wt1)>>), Abs(<<N_repo, N_w2>>),
                      Abs(<<N_repo, N_papers, N_file>>)},
     paper_dir_relpath : {Rel(<<N_papers, N_P1>>), Rel(<<N_ln, N_P1>>), Rel(<<>>),
                          Rel(<<N_papers, N_P2>>), Rel(<<N_ext, N_P1>>),
                          Rel(<<N_skill>>), Abs(Wt1 \o <<N_papers, N_P1>>)},
     skill_dir_relpath : {Rel(<<N_skill>>), Rel(<<N_tmp>>), Rel(<<DotDot, DotDot, N_skill>>)},
     output_dir : {Rel(<<N_output>>), Rel(<<N_papers, N_P1, N_output>>), Rel(<<>>),
                   Rel(<<N_skill, N_refs, N_output>>), Rel(<<DotDot, N_output>>)},
     cwd_mode : {"workspace", "paper"},
     worker_cmd : {<<>>, <<DashDash>>, <<DashDash, W_cmd>>, <<W_cmd, W_arg>>}]

InitRun ==
    /\ \E ps \in PolicyStates, b \in BOOLEAN, sys \in SystemDirs, env \in CallerEnvs :
          /\ host = RunHost(ps, b, sys, env)
          /\ dirs = RunDirs(ps)
          /\ \E a \in RunArgs :
                run = [pc |-> "start", args |-> a, locals |-> NoLocals, code |-> 0,
                       message |-> NoFailure, dirs0 |-> RunDirs(ps)]
    /\ execs = <<>>
    /\ san = NoSan
    /\ ckpt = NoCheckpoint
    /\ broken = {}
    /\ branches = {B_main, B_other, Branch1}
    /\ registry = {[path |-> RepoRoot, branch |-> B_main],
                   [path |-> Wt1, branch |-> Branch1]}
    /\ now = 0
    /\ pc = [p \in Procs |-> "idle"]
    /\ call = [p \in Procs |-> NoCall]
    /\ result = [p \in Procs |-> NoResult]
    /\ derived = SetToBag({[branch |-> Branch1, wt_path |-> Wt1]})
    /\ snap = [p \in Procs |-> NoSnap]
    /\ ncalls = 0
    /\ rin = NoResolve
    /\ rout = NotCalled

NextRun ==
    \/ RunCheck
    \/ \E status \in ExitStatuses : RunLaunch(status)

SpecRun == InitRun /\ [][NextRun]_vars

----------------------------------------------------------------------------
(* C12: no launch without the manifest's paths *)

\* The call's paths, resolved as the gate resolves them
RunWorktree == Resolve(Join(RunCwd, PathOf(run.args.worktree_path)))
RunPaper == ResolveUnder(RunWorktree, run.args.paper_dir_relpath)
RunSkill == ResolveUnder(RunWorktree, run.args.skill_dir_relpath)
RunOutput == ResolveUnder(RunWorktree, run.args.output_dir)

\* The call is past the capability check, the worktree check and the
\* containment checks.
PathsAccepted ==
    /\ host.bwrap
    /\ PathIsDir(RunWorktree)
    /\ RunPaper.ok /\ RunSkill.ok /\ RunOutput.ok

\* The payload directory and the three policy sub-paths that are not there
MissingManifestPaths ==
    (IF PathIsDir(RunPaper.path) THEN {} ELSE {RunPaper.path})
        \cup (IF PathIsFile(Append(RunSkill.path, N_skillmd))
                  THEN {} ELSE {Append(RunSkill.path, N_skillmd)})
        \cup (IF PathIsDir(Append(RunSkill.path, N_refs))
                  THEN {} ELSE {Append(RunSkill.path, N_refs)})
        \cup (IF PathIsDir(Append(RunSkill.path, N_scripts))
                  THEN {} ELSE {Append(RunSkill.path, N_scripts)})

ManifestPathTexts ==
    {"Paper directory not found", "Skill directory not found", "Missing skill file",
     "Missing references directory", "Missing scripts directory"}

RunChecked == run.pc # "start"
Launched == execs # <<>>

BindSources(cmd) == {cmd.mounts[k].src : k \in {j \in 1..Len(cmd.mounts) : IsBind(cmd.mounts[j])}}

\* C12: the gate starts a child only when the payload directory and the three
\* policy sub-paths (the SKILL.md file, the references directory, the scripts
\* directory) test as present at their places in the worktree, and the child's
\* binds name those places and the system directories only; when one of them
\* is absent the call fails with status 1 and a message that names an absent
\* path (or the policy folder that should hold it), and no child is started.
C12_NoLaunchWithoutManifestPaths ==
    /\ Launched =>
          /\ PathsAccepted
          /\ MissingManifestPaths = {}
          /\ BindSources(execs[1].cmd) \ host.sys =
                 {RunPaper.path, RunOutput.path, Append(RunSkill.path, N_skillmd),
                  Append(RunSkill.path, N_refs), Append(RunSkill.path, N_scripts)}
          /\ IsPrefix(RunWorktree, RunPaper.path)
          /\ IsPrefix(RunWorktree, RunSkill.path)
    /\ (RunChecked /\ PathsAccepted /\ MissingManifestPaths # {}) =>
          /\ run.pc = "failed"
          /\ run.code = 1
          /\ run.message.text \in ManifestPathTexts
          /\ run.message.path \in MissingManifestPaths \cup {RunSkill.path}
          /\ ~Launched
          /\ dirs = run.dirs0

\* A call with a worker command, on a worktree whose policy folder lacks its
\* references directory, has failed naming that directory.
C12_MissingReferencesRefused ==
    /\ run.pc = "failed"
    /\ WorkerCommand(run.args.worker_cmd) # <<>>
    /\ run.message = FailWith("", "Missing references directory", Append(SkillDir1, N_refs))
    /\ ~Launched

----------------------------------------------------------------------------
(* C13: what the sandbox shows of the host *)

\* The allow-list of a call: the payload and output directories, the three
\* policy sub-paths, and the system directories the host has.
AllowList ==
    {RunPaper.path, RunOutput.path, Append(RunSkill.path, N_skillmd),
     Append(RunSkill.path, N_refs), Append(RunSkill.path, N_scripts)}
        \cup host.sys

\* The sandbox of a child shows allow-list locations only, and all of them.
ShowsAllowList(child) ==
    /\ \A v \in child.visible : v \in AllowList
    /\ \A a \in AllowList : \E v \in child.visible : IsPrefix(v, a)
    /\ \A v \in child.visible \ host.sys : IsPrefix(RunWorktree, v)

\* C13: for every accepted combination of arguments, the host locations that
\* are visible inside the sandbox are exactly the allow-list (the payload and
\* output directories, the three policy sub-paths, the system directories),
\* and nothing of the host outside the worktree besides the system
\* directories is visible.
C13_VisibleIsAllowList ==
    \A k \in 1..Len(execs) : ShowsAllowList(execs[k])

----------------------------------------------------------------------------
(* C14: the process namespace and the environment of the sandbox *)

\* The environment the gate sets: the sandbox marker and the home directory
FreshEnvironment ==
    {[name |-> "CFST_SANDBOX", value |-> "1"], [name |-> "HOME", value |-> "/tmp"]}

\* C14: the worker runs in a process namespace of its own, where it can
\* neither see nor signal the host's other processes, and in a fresh
\* environment that holds the sandbox marker and the safe home directory
\* instead of the caller's ambient environment.
C14_IsolatedNamespaceFreshEnvironment ==
    \A k \in 1..Len(execs) :
        /\ execs[k].pidns = "new"
        /\ execs[k].env = FreshEnvironment

----------------------------------------------------------------------------
(* C15: one execution, and its exit status *)

\* The call passes every check of the gate.
PassesValidation ==
    /\ PathsAccepted
    /\ MissingManifestPaths = {}
    /\ WorkerCommand(run.args.worker_cmd) # <<>>

\* C15: a call that passes validation does not fail in the gate; when it is
\* over, the worker command was executed exactly once (one child, never a
\* second one) and the call returns the status that child exited with,
\* whatever it is.  No call starts more than one child.
C15_OneExecutionStatusUnchanged ==
    /\ Len(execs) <= 1
    /\ (RunChecked /\ PassesValidation) =>
          /\ run.pc \in {"ready", "done"}
          /\ run.pc = "ready" => ~Launched
          /\ run.pc = "done" =>
                /\ Len(execs) = 1
                /\ execs[1].cmd.worker_cmd = WorkerCommand(run.args.worker_cmd)
                /\ run.code = execs[1].status

\* A worker that exited with status 3 was run once, and the call returned 3.
C15_WorkerFailedWithThree ==
    /\ run.pc = "done"
    /\ Len(execs) = 1
    /\ execs[1].status = 3
    /\ run.code = 3

----------------------------------------------------------------------------
(* C16: the empty worker command *)

\* No worker command: no arguments after the gate's own, or "--" alone
EmptyCommand == run.args.worker_cmd \in {<<>>, <<DashDash>>}

EmptyCommandText == "Missing worker command. Use -- <command> <args...>"

\* C16: a call with an empty worker command fails with status 1 and starts
\* no child.  The failure is the empty-command error when the host has bwrap
\* and the worktree, the three paths and the manifest's paths pass their
\* checks, and then the output directory has already been made; otherwise it
\* is the error of the first of those checks that fails, and nothing was made.
C16_EmptyCommandFails ==
    (RunChecked /\ EmptyCommand) =>
        /\ run.pc = "failed"
        /\ run.code = 1
        /\ ~Launched
        /\ (PathsAccepted /\ MissingManifestPaths = {}) =>
              /\ run.message = FailWith("", EmptyCommandText, <<>>)
              /\ dirs = MkdirP(run.dirs0, RunOutput.path)
        /\ ~(PathsAccepted /\ MissingManifestPaths = {}) =>
              /\ run.message.text # EmptyCommandText
              /\ dirs = run.dirs0

\* A call whose command was "--" alone failed with the empty-command error,
\* after its output directory was made.
C16_SeparatorAloneRefused ==
    /\ run.pc = "failed"
    /\ run.args.worker_cmd = <<DashDash>>
    /\ run.message.text = EmptyCommandText
    /\ ~Launched
    /\ Wt1 \o <<N_output>> \in dirs \ run.dirs0

\* C16 as the claim states it: a call with an empty worker command fails with
\* the empty-command error, and nothing is executed.
C16_AsStated ==
    (RunChecked /\ EmptyCommand) =>
        /\ run.pc = "failed"
        /\ run.message.text = EmptyCommandText
        /\ ~Launched

----------------------------------------------------------------------------
(* C17: the host without bwrap *)

MissingCapabilityText == "bubblewrap (bwrap) not found in PATH."

\* C17: on a host without bwrap the call fails with the missing-capability
\* message, whatever its arguments, and it starts no child and makes no
\* directory; and no call on a host with bwrap ends with that message, so
\* what the caller sees (status 1 and the message) tells this failure from
\* the failures of the worktree, path, manifest and command checks.
C17_MissingCapabilityDistinct ==
    RunChecked =>
        /\ ~host.bwrap =>
              /\ run.pc = "failed"
              /\ run.code = 1
              /\ run.message.text = MissingCapabilityText
              /\ ~Launched
              /\ dirs = run.dirs0
        /\ host.bwrap => run.message.text # MissingCapabilityText
        /\ run.pc = "failed" => run.message.text # ""

\* On a host without bwrap, a call that names no worktree that exists and
\* has no worker command failed with the missing-capability message.
C17_CapabilityCheckedFirst ==
    /\ ~host.bwrap
    /\ run.pc = "failed"
    /\ run.message.text = MissingCapabilityText
    /\ EmptyCommand
    /\ ~PathExists(RunWorktree)

----------------------------------------------------------------------------
(* C18: where the manifest's paths are mapped *)

\* The bind operations of a command whose sources are not system directories
ManifestBinds(cmd) ==
    {cmd.mounts[k] : k \in {j \in 1..Len(cmd.mounts) :
                               IsBind(cmd.mounts[j]) /\ cmd.mounts[j].src \notin host.sys}}

ReadWritePaths == {RunPaper.path, RunOutput.path}

ReadOnlyPaths ==
    {Append(RunSkill.path, N_skillmd), Append(RunSkill.path, N_refs),
     Append(RunSkill.path, N_scripts)}

\* C18: in the command of a child, each read-write path worktree/R of the
\* manifest is bound read-write at /workspace/R, each read-only policy path
\* worktree/S/{SKILL.md, references, scripts} is bound read-only at
\* /workspace/S/{...}, and no manifest path is bound at another destination
\* or in another mode.
C18_ManifestMappedUnderWorkspace ==
    \A k \in 1..Len(execs) :
        LET binds == ManifestBinds(execs[k].cmd)
        IN  /\ {m.src : m \in binds} = ReadWritePaths \cup ReadOnlyPaths
            /\ \A m \in binds :
                  /\ IsPrefix(RunWorktree, m.src)
                  /\ m.dst = <<N_workspace>> \o RelativeTo(m.src, RunWorktree).rel
                  /\ m.src \in ReadWritePaths => m.op = "--bind"
                  /\ m.src \in ReadOnlyPaths => m.op = "--ro-bind"

\* A child was started for a payload named through the worktree's link ln
\* and an output directory inside the payload: the payload is bound
\* read-write at /workspace/ps/P1, the output directory below it, and the
\* references directory read-only at /workspace/sk/rf.
C18_LinkedPayloadMapped ==
    /\ Launched
    /\ run.args.paper_dir_relpath = Rel(<<N_ln, N_P1>>)
    /\ run.args.output_dir = Rel(<<N_papers, N_P1, N_output>>)
    /\ Mount("--bind", Wt1 \o <<N_papers, N_P1>>, <<N_workspace, N_papers, N_P1>>)
           \in ManifestBinds(execs[1].cmd)
    /\ Mount("--bind", Wt1 \o <<N_papers, N_P1, N_output>>,
             <<N_workspace, N_papers, N_P1, N_output>>) \in ManifestBinds(execs[1].cmd)
    /\ Mount("--ro-bind", Wt1 \o <<N_skill, N_refs>>, <<N_workspace, N_skill, N_refs>>)
           \in ManifestBinds(execs[1].cmd)

----------------------------------------------------------------------------
(* C19: the branch a remove finds for itself *)

\* The branch the registry lists for a path, the empty name if it lists none
RegistryBranch(path) ==
    IF \E e \in registry : e.path = path
        THEN (CHOOSE e \in registry : e.path = path).branch
        ELSE <<>>

\* C19: a remove that is given no branch name takes the branch the registry
\* lists for the entry whose path is the path it was given (none when there
\* is no such entry), and it takes it before it removes the worktree; when it
\* then deletes a branch, that branch is the one it looked up, a branch some
\* create derived for that worktree path.
C19_LookupBeforeRemoval ==
    [][\A p \in Procs :
          /\ (RemoveStarts(p) /\ pc'[p] = "r_rm" /\ call'[p].arg_branch = <<>>) =>
                /\ call'[p].branch = RegistryBranch(call'[p].wt_path)
                /\ registry' = registry
          /\ (pc[p] = "r_br" /\ pc'[p] = "done" /\ call[p].arg_branch = <<>>) =>
                /\ call[p].branch = call[p].reg_branch
                /\ result'[p].branch = call[p].reg_branch
                /\ branches \ branches' \subseteq {call[p].reg_branch}
                /\ \A b \in branches \ branches' :
                      [branch |-> b, wt_path |-> call[p].wt_path] \in BagToSet(derived)]_vars

\* A remove given no branch name, told to delete the branch, has removed a
\* worktree and deleted the branch the registry listed for it.
C19_LookedUpBranchDeleted ==
    \E p \in Procs :
        /\ pc[p] = "done" /\ call[p].op = "remove" /\ result[p].rc = 0
        /\ call[p].arg_branch = <<>>
        /\ call[p].reg_branch # <<>>
        /\ result[p].deleted_branch
        /\ result[p].branch = call[p].reg_branch
        /\ call[p].reg_branch \notin branches

----------------------------------------------------------------------------
(* C20: the paths a create uses *)

\* Process p takes a step of a create call.
CreateActs(p) == pc'[p] # pc[p] /\ call'[p].op = "create"

\* The directories a step makes or removes
DirsChanged == (dirs' \ dirs) \cup (dirs \ dirs')

\* C20: every path a create uses (the payload, the policy folder, the
\* worktrees root, the output directory) lies inside its declared root (the
\* repository for the first three, the worktree for the last), so a create
\* makes and removes directories only at or below a worktrees root that is
\* inside the repository.
C20_CreateUsesContainedPaths ==
    [][\A p \in Procs :
          CreateActs(p) =>
              /\ call'[p].wt_root # <<>> =>
                    /\ IsPrefix(RepoRoot, call'[p].paper_abs)
                    /\ IsPrefix(RepoRoot, call'[p].skill_abs)
                    /\ IsPrefix(RepoRoot, call'[p].wt_root)
              /\ \A d \in DirsChanged :
                    /\ IsPrefix(call'[p].wt_root, d)
                    /\ IsPrefix(RepoRoot, d)]_vars

----------------------------------------------------------------------------
(* C21: the output directory of a create *)

\* The output directory name of p's create did not pass the containment check.
OutputRefused(p) ==
    \E k \in 1..Len(call[p].ops) : call[p].ops[k] = "resolve output: raised"

\* C21: a create makes its output directory only inside the new worktree;
\* when the output directory name is absolute or leads outside the worktree,
\* the create fails with the payload-staging error, no directory is made
\* outside the worktrees roots, and once it has returned neither the worktree
\* directory, nor its registry entry, nor the branch exists.
C21_EscapingOutputLeavesNothing ==
    \A p \in Procs :
        /\ CreateSucceeded(p) =>
              /\ IsPrefix(result[p].worktree_path, result[p].sandbox.allowed_rw[2])
              /\ result[p].sandbox.allowed_rw[2] \in dirs
        /\ (pc[p] = "done" /\ call[p].op = "create" /\ OutputRefused(p)) =>
              /\ result[p].rc = 1
              /\ result[p].msg = "Failed to prepare worktree payload"
              /\ \A d \in dirs : IsPrefix(WtRoot1, d) \/ IsPrefix(call[p].wt_root, d)
              /\ call[p].wt_path \notin dirs
              /\ call[p].wt_path \notin RegisteredPaths
              /\ call[p].branch \notin branches

----------------------------------------------------------------------------
(* SpecSlug: _sanitize_slug applied to a string, and again to its result *)

\* longest string, in characters, that the sanitizer is given
MaxSlugLen == 4

\* Letters, the three separators, a blank and a character outside the safe
\* alphabet.
SlugChars == {"a", "b", ".", "-", "_", " ", "/"}

InitSlug ==
    /\ InitAfterCreate
    /\ rin = NoResolve
    /\ rout = NotCalled
    /\ host = NoHost
    /\ run = NoRun
    /\ execs = <<>>
    /\ ckpt = NoCheckpoint
    /\ san \in [pc : {"start"}, raw : SeqsUpTo(SlugChars, MaxSlugLen),
                token : {<<>>}, again : {<<>>}]

\* slug = _sanitize_slug(raw)
Sanitize ==
    /\ san.pc = "start"
    /\ san' = [san EXCEPT !.pc = "once", !.token = SanitizeSlug(san.raw)]
    /\ UNCHANGED <<fsvars, now, procvars, resolvevars, host, run, execs, ckpt>>

\* _sanitize_slug(slug)
SanitizeAgain ==
    /\ san.pc = "once"
    /\ san' = [san EXCEPT !.pc = "twice", !.again = SanitizeSlug(san.token)]
    /\ UNCHANGED <<fsvars, now, procvars, resolvevars, host, run, execs, ckpt>>

NextSlug == Sanitize \/ SanitizeAgain

SpecSlug == InitSlug /\ [][NextSlug]_vars

----------------------------------------------------------------------------
(* C22: the sanitized identifier *)

\* A name a directory can bear.
DirNameOk(c) ==
    /\ c # <<>>
    /\ c # <<".">>
    /\ c # <<".", ".">>
    /\ \A k \in 1..Len(c) : c[k] # "/"

\* Nothing of the string is left once the unsafe characters and the
\* separators at both ends are gone.
NothingRemains(raw) == \A k \in 1..Len(raw) : raw[k] \notin Alnum

\* The token is made only of safe characters and neither begins nor ends
\* with a separator.
WellFormedToken(t) ==
    /\ t # <<>>
    /\ \A k \in 1..Len(t) : t[k] \in SafeChars
    /\ Head(t) \notin Separators
    /\ Last(t) \notin Separators

\* The names create derives from a token
TokenDirName(t) == Last(WorktreePath(WtRoot1, t, Suffix(0, RepoRoot, 1)))
TokenBranch(t) == BranchName(P_cw, t, Suffix(0, RepoRoot, 1))

\* C22: for every string, the sanitizer returns a non-empty token of
\* alphanumerics, dots, dashes and underscores that neither begins nor ends
\* with a separator, that is the default token when nothing else remains,
\* that serves as a directory name and in the last component of a branch
\* name, and that the sanitizer returns unchanged.
C22_TokenSafeAndStable ==
    /\ san.pc \in {"once", "twice"} =>
          /\ WellFormedToken(san.token)
          /\ NothingRemains(san.raw) => san.token = DefaultSlug
          /\ DirNameOk(san.token)
          /\ DirNameOk(TokenDirName(san.token))
          /\ CheckRefFormat(TokenBranch(san.token))
    /\ san.pc = "twice" => san.again = san.token

----------------------------------------------------------------------------
(* The commit/push helper (checkpoint_output_commits.py).  A repository     *)
(* path is a string, held as a sequence of characters; an index entry is    *)
(* [path, kind, blob] with kind "A" (added), "M" (modified), "D" (deleted). *)

F_sa == <<"s", "/", "a">>
F_k == <<"k">>
F_oa == <<"o", "/", "a">>
F_ob == <<"o", "/", "b">>
F_oc == <<"o", "/", "c">>
F_sn == <<"s", "/", "n">>

\* The files of the commit the helper starts from, and their contents.
HeadFiles == {F_sa, F_k, F_oa}

Entry(path, kind, blob) == [path |-> path, kind |-> kind, blob |-> blob]

\* How git reads the pathspec of "git -C <root> add -- <pathspec>": an empty
\* one and one that leaves the repository are refused, "." and ".." are
\* resolved, a trailing "/" is dropped.
RECURSIVE NormalizeSpec(_, _)
NormalizeSpec(cs, acc) ==
    IF cs = <<>> THEN [ok |-> TRUE, comps |-> acc]
    ELSE IF Head(cs) = <<>> \/ Head(cs) = Dot THEN NormalizeSpec(Tail(cs), acc)
    ELSE IF Head(cs) = DotDot
        THEN IF acc = <<>> THEN [ok |-> FALSE, comps |-> <<>>]
             ELSE NormalizeSpec(Tail(cs), Front(acc))
    ELSE NormalizeSpec(Tail(cs), Append(acc, Head(cs)))

Pathspec(spec) ==
    IF spec = <<>> \/ Head(spec) = "/" THEN [ok |-> FALSE, comps |-> <<>>]
    ELSE NormalizeSpec(SplitSlash(spec, <<>>), <<>>)

\* The files the index lists.
IndexFiles(index) ==
    (HeadFiles \ {e.path : e \in {x \in index : x.kind = "D"}})
        \cup {e.path : e \in {x \in index : x.kind = "A"}}

\* git add -- <pathspec>: every change of the working tree at or below the
\* pathspec goes to the index; a pathspec that matches no file is an error.
GitAdd(index, work, spec) ==
    LET n == Pathspec(spec)
        under(path) == IsPrefix(n.comps, SplitSlash(path, <<>>))
        hit == {e \in work : under(e.path)}
        known == {f \in IndexFiles(index) : under(f)} \cup {e.path : e \in hit}
    IN  IF ~n.ok \/ known = {}
            THEN [ok |-> FALSE, index |-> index, work |-> work]
        ELSE [ok |-> TRUE, index |-> index \cup hit, work |-> work \ hit]

\* The listing of a git that pairs no deletion with an addition.
GitDiffCachedNamesNoRenames(index) == {e.path : e \in index}

\* git diff --cached --name-only.  With rename detection, which git diff has
\* on by default, a staged deletion whose content reappears in a staged
\* addition is one rename, and the rename is listed by its new name alone.
GitDiffCachedNames(index) ==
    {e.path : e \in {x \in index :
        ~(x.kind = "D" /\ \E a \in index : a.kind = "A" /\ a.blob = x.blob)}}

\* _staged_files, lines 34-38
StagedFiles(index) == {StripChars(line, Whitespace) : line \in GitDiffCachedNames(index)}

ReplaceBackslash(s) == [k \in 1..Len(s) |-> IF s[k] = "\\" THEN "/" ELSE s[k]]

\* _only_output_files, lines 56-64: the paths that are neither the output
\* directory nor begin with it and a "/".
OnlyOutputFiles(paths, output_dir) ==
    LET clean == ReplaceBackslash(StripChars(output_dir, {"/"}))
        bad == {path \in paths :
                  LET norm == ReplaceBackslash(path)
                  IN  ~(norm = clean \/ IsPrefix(clean \o <<"/">>, norm))}
    IN  [ok |-> bad = {}, bad |-> bad]

CkptFail(c, code, text, bad) ==
    [c EXCEPT !.pc = "failed", !.code = code, !.message = [text |-> text, bad |-> bad]]

\* main, lines 67-122: the arguments are checked, and when a commit is due
\* the output directory is staged, the staged names are checked and the
\* index is committed.  add_ok and commit_ok say whether the host lets
\* "git add" and "git commit" succeed.
CheckpointCommit(add_ok, commit_ok) ==
    /\ ckpt.pc = "start"
    /\ LET a == ckpt.args
           commit_due == a.processed_count % a.commit_every = 0
           added == GitAdd(ckpt.index, ckpt.work, a.output_dir)
           staged == StagedFiles(added.index)
           only == OnlyOutputFiles(staged, a.output_dir)
       IN  ckpt' =
             IF a.processed_count <= 0
                 THEN CkptFail(ckpt, 1, "--processed-count must be > 0.", {})
             ELSE IF a.commit_every <= 0 \/ a.push_every <= 0
                 THEN CkptFail(ckpt, 1, "--commit-every and --push-every must be > 0.", {})
             ELSE IF ~ckpt.in_repo
                 THEN CkptFail(ckpt, 2, "Current directory is not a git repository.", {})
             ELSE IF ~commit_due
                 THEN [ckpt EXCEPT !.pc = "push"]
             ELSE IF ~(added.ok /\ add_ok)
                 THEN CkptFail(ckpt, 1, "git add", {})
             ELSE IF staged = {}
                 THEN [ckpt EXCEPT !.pc = "push", !.index = added.index,
                                   !.work = added.work, !.staged = <<added.index>>]
             ELSE IF ~only.ok
                 THEN CkptFail([ckpt EXCEPT !.index = added.index, !.work = added.work,
                                            !.staged = <<added.index>>],
                               1, "Staged changes include non-output files", only.bad)
             ELSE IF ~commit_ok
                 THEN CkptFail([ckpt EXCEPT !.index = added.index, !.work = added.work,
                                            !.staged = <<added.index>>],
                               1, "git commit", {})
             ELSE [ckpt EXCEPT !.pc = "push", !.index = {}, !.work = added.work,
                               !.staged = <<added.index>>,
                               !.commits = Append(ckpt.commits, added.index)]
    /\ UNCHANGED <<fsvars, now, procvars, resolvevars, host, run, execs, san>>

\* main, lines 124-139: when a push is due the branch is pushed to the
\* remote; the summary is printed and 0 returned.
CheckpointPush(push_ok) ==
    /\ ckpt.pc = "push"
    /\ LET a == ckpt.args
           push_due == a.processed_count % a.push_every = 0
           branch == IF a.branch # <<>> THEN a.branch ELSE ckpt.current_branch
       IN  ckpt' =
             IF ~push_due THEN [ckpt EXCEPT !.pc = "done", !.code = 0]
             ELSE IF branch = <<>>
                 THEN CkptFail(ckpt, 1, "Cannot determine branch for push.", {})
             ELSE IF ~ckpt.remote_ok
                 THEN CkptFail(ckpt, 1, "Remote not found", {})
             ELSE IF ~push_ok
                 THEN CkptFail(ckpt, 1, "git push", {})
             ELSE [ckpt EXCEPT !.pc = "done", !.code = 0,
                               !.pushes = Append(ckpt.pushes, branch)]
    /\ UNCHANGED <<fsvars, now, procvars, resolvevars, host, run, execs, san>>

----------------------------------------------------------------------------
(* SpecCheckpoint: one call of the helper in a repository with changes *)

\* Changes staged before the call: a file moved into the output directory
\* (git mv s/a o/c) and an edit of a file outside it.
IndexChanges ==
    {Entry(F_sa, "D", 1), Entry(F_oc, "A", 1), Entry(F_k, "M", 4)}

\* Changes of the working tree that are not staged.
WorkChanges ==
    {Entry(F_ob, "A", 5), Entry(F_oa, "M", 6), Entry(F_sn, "A", 7)}

CheckpointArgs ==
    [processed_count : {0, 10, 15, 20},
     commit_every : {0, 3, 10},
     push_every : {20},
     output_dir : {<<"o">>, <<"o", "/">>, <<".", "/", "o">>, <<"s">>, <<".">>,
                   <<"/", "o">>, <<>>},
     branch : {<<>>, B_main}]

InitCheckpoint ==
    /\ InitAfterCreate
    /\ rin = NoResolve
    /\ rout = NotCalled
    /\ host = NoHost
    /\ run = NoRun
    /\ execs = <<>>
    /\ san = NoSan
    /\ \E a \in CheckpointArgs, idx \in SUBSET IndexChanges, wk \in SUBSET WorkChanges,
          repo \in BOOLEAN, remote \in BOOLEAN, cur \in {<<>>, B_other} :
          ckpt = [pc |-> "start", args |-> a, in_repo |-> repo, remote_ok |-> remote,
                  current_branch |-> cur, index |-> idx, work |-> wk,
                  staged |-> <<>>, commits |-> <<>>, pushes |-> <<>>,
                  code |-> -1, message |-> [text |-> "", bad |-> {}]]

NextCheckpoint ==
    \/ \E add_ok \in BOOLEAN, commit_ok \in BOOLEAN : CheckpointCommit(add_ok, commit_ok)
    \/ \E push_ok \in BOOLEAN : CheckpointPush(push_ok)

SpecCheckpoint == InitCheckpoint /\ [][NextCheckpoint]_vars

----------------------------------------------------------------------------
(* C23: only the output directory is committed *)

\* The path lies outside the named output directory.
OutsideOutput(path, output_dir) ==
    LET n == Pathspec(output_dir)
    IN  ~n.ok \/ ~IsPrefix(n.comps, SplitSlash(path, <<>>))

\* C23: the helper never makes a commit that holds a path outside the output
\* directory; whenever the index, once the output directory is staged, holds
\* a path outside it, the helper fails with an error that names those paths,
\* makes no commit and does not push.
C23_OnlyOutputCommitted ==
    LET out == ckpt.args.output_dir
    IN  ckpt.pc # "none" =>
          /\ \A k \in 1..Len(ckpt.commits) :
                \A e \in ckpt.commits[k] : ~OutsideOutput(e.path, out)
          /\ \A k \in 1..Len(ckpt.staged) :
                LET outside == {e.path : e \in {x \in ckpt.staged[k] :
                                                  OutsideOutput(x.path, out)}}
                IN  outside # {} =>
                      /\ ckpt.pc = "failed"
                      /\ ckpt.code = 1
                      /\ ckpt.message.text = "Staged changes include non-output files"
                      /\ outside \subseteq ckpt.message.bad
                      /\ ckpt.commits = <<>>
                      /\ ckpt.pushes = <<>>

----------------------------------------------------------------------------
(* C24: the manager and the gate on the same paths *)

\* The manifest the manager computes for the paths the gate was given.
ManagerManifest ==
    BuildSandboxPaths(CheckoutRoots, RunWorktree,
                      PathOf(run.args.paper_dir_relpath).segs,
                      PathOf(run.args.skill_dir_relpath).segs,
                      run.args.output_dir)

\* The manager's containment check of the gate's three paths.
ManagerAccepts ==
    /\ ResolveUnderRoot(RunWorktree, run.args.paper_dir_relpath).ok
    /\ ResolveUnderRoot(RunWorktree, run.args.skill_dir_relpath).ok
    /\ ResolveUnderRoot(RunWorktree, run.args.output_dir).ok

\* The gate refused the call for a path that is absolute or leaves the worktree.
GateRefusedPath ==
    /\ run.pc = "failed"
    /\ run.message.text \in {"escapes worktree", "must be a relative path under worktree"}

RangeOf(s) == {s[k] : k \in 1..Len(s)}

\* C24: for one worktree and the same payload, policy and output paths, the
\* gate's containment check accepts exactly what the manager's accepts, with
\* the same resolved path, and the host paths a child has bound read-write
\* and read-only are exactly the read-write set and the read-only set of the
\* manifest the manager computes.
C24_GateAgreesWithManager ==
    /\ (RunChecked /\ host.bwrap /\ PathIsDir(RunWorktree)) =>
          /\ GateRefusedPath <=> ~ManagerAccepts
          /\ \A raw \in {run.args.paper_dir_relpath, run.args.skill_dir_relpath,
                         run.args.output_dir} :
                LET m == ResolveUnderRoot(RunWorktree, raw)
                    g == ResolveUnder(RunWorktree, raw)
                IN  m.ok = g.ok /\ (m.ok => m.path = g.path)
    /\ \A k \in 1..Len(execs) :
          LET binds == ManifestBinds(execs[k].cmd)
          IN  /\ {b.src : b \in {x \in binds : x.op = "--bind"}}
                    = RangeOf(ManagerManifest.allowed_rw)
              /\ {b.src : b \in {x \in binds : x.op = "--ro-bind"}}
                    = RangeOf(ManagerManifest.allowed_ro)

\* A child runs on a payload named through the link ln and an output
\* directory inside the payload; the manager's manifest holds the two
\* resolved directories, and they are what the child has bound read-write.
C24_LinkedPayloadAgreed ==
    /\ Launched
    /\ run.args.paper_dir_relpath = Rel(<<N_ln, N_P1>>)
    /\ run.args.output_dir = Rel(<<N_papers, N_P1, N_output>>)
    /\ ManagerManifest.allowed_rw =
          <<Wt1 \o <<N_papers, N_P1>>, Wt1 \o <<N_papers, N_P1, N_output>>>>
    /\ {b.src : b \in {x \in ManifestBinds(execs[1].cmd) : x.op = "--bind"}}
          = RangeOf(ManagerManifest.allowed_rw)

----------------------------------------------------------------------------
(* SpecPaired: processes calling create and remove, every remove with *)
(* --delete-branch                                                    *)

NextPaired ==
    \/ Tick
    \/ \E p \in Procs, cwd \in Cwds, a \in CreateArgs :
          ncalls < MaxCalls /\ CreateBegin(p, cwd, a)
    \/ \E p \in Procs : CreateAdd(p)
    \/ \E p \in Procs, failAt \in {"none", "copy paper"} : CreateStage(p, failAt)
    \/ \E p \in Procs, envok \in BOOLEAN : CreateRollbackRemove(p, envok)
    \/ \E p \in Procs, envok \in BOOLEAN : CreateRollbackBranch(p, envok)
    \/ \E p \in Procs, cwd \in Cwds, a \in {x \in RemoveArgs : x.delete_branch} :
          ncalls < MaxCalls /\ RemoveBegin(p, cwd, a)
    \/ \E p \in Procs, envok \in BOOLEAN : RemoveWorktree(p, envok)
    \/ \E p \in Procs, envok \in BOOLEAN : RemoveBranch(p, envok)
    \/ \E p \in Procs : Return(p)

SpecPaired == Init /\ [][NextPaired]_vars

----------------------------------------------------------------------------
(* C25: worktrees and branches stay paired *)

\* No call is under way.
Quiet == \A p \in Procs : pc[p] \in {"idle", "done"}

\* The directories that exist at the paths the create calls derived.
WorktreeDirs == {x.wt_path : x \in BagToSet(derived)} \cap dirs

\* C25: whenever no call is under way, every worktree directory that exists
\* has a registry entry whose branch exists and is the branch
\* of no other entry, and every branch a create made that still exists is
\* the branch of a registered worktree whose directory exists.
C25_LifecyclesPaired ==
    Quiet =>
        /\ \A d \in WorktreeDirs :
              \E e \in registry :
                  /\ e.path = d
                  /\ e.branch \in branches
                  /\ \A f \in registry : f.branch = e.branch => f = e
        /\ \A x \in BagToSet(derived) :
              x.branch \in branches =>
                  \E e \in registry : e.branch = x.branch /\ e.path \in dirs

----------------------------------------------------------------------------
(* C26: the order of the mount operations *)

\* The positions of a command's operations of one kind
DirSteps(cmd) == {k \in 1..Len(cmd.mounts) : cmd.mounts[k].op = "--dir"}
BindSteps(cmd) == {k \in 1..Len(cmd.mounts) : IsBind(cmd.mounts[k])}

\* The binds whose destination is in the synthetic workspace
WorkspaceBindSteps(cmd) ==
    {k \in BindSteps(cmd) : IsPrefix(<<N_workspace>>, cmd.mounts[k].dst)}

\* The three destinations of the policy bundle
PolicyDsts == {Append(Dst(run.locals.skill_rel), n) : n \in {N_skillmd, N_refs, N_scripts}}

\* What the sandbox shows at a destination: the last operation at or above it.
ModeAt(cmd, d) ==
    LET at == {k \in 1..Len(cmd.mounts) : IsPrefix(cmd.mounts[k].dst, d)}
    IN  IF at = {} THEN "none"
        ELSE cmd.mounts[CHOOSE k \in at : \A j \in at : j <= k].op

\* The directories are made parents first, the two read-write binds precede
\* the three read-only policy binds, and each policy destination is
\* read-only in the final view.
OrderedAndReadOnly(cmd) ==
    /\ \A i \in DirSteps(cmd) :
          LET d == cmd.mounts[i].dst
          IN  /\ Len(d) > 1 => \E j \in DirSteps(cmd) : j < i /\ cmd.mounts[j].dst = Front(d)
              /\ \A j \in DirSteps(cmd) :
                    (IsPrefix(cmd.mounts[j].dst, d) /\ cmd.mounts[j].dst # d) => j < i
    /\ \A j \in WorkspaceBindSteps(cmd) :
          /\ cmd.mounts[j].op = "--ro-bind" <=> cmd.mounts[j].dst \in PolicyDsts
          /\ cmd.mounts[j].op = "--ro-bind" =>
                \A i \in WorkspaceBindSteps(cmd) : cmd.mounts[i].op = "--bind" => i < j
    /\ Cardinality({k \in WorkspaceBindSteps(cmd) : cmd.mounts[k].op = "--bind"}) = 2
    /\ \A d \in PolicyDsts : ModeAt(cmd, d) = "--ro-bind"

\* C26 as the specification words it: every directory creation step
\* precedes every bind of the argument vector.
C26_AsStated ==
    \A k \in 1..Len(execs) :
        LET cmd == execs[k].cmd
        IN  /\ \A i \in DirSteps(cmd), j \in BindSteps(cmd) : i < j
            /\ OrderedAndReadOnly(cmd)

\* C26: in the command of a child, every directory creation step precedes
\* every bind into the workspace (the read-only binds of the host's system
\* directories come before the directory steps), parents are made before
\* their children, the three read-only policy binds come after both
\* read-write binds, and whatever the overlap of the three paths the
\* destinations of SKILL.md, references and scripts are read-only in the
\* final view, covered by no read-write bind.
C26_DirsThenBindsPolicyLast ==
    \A k \in 1..Len(execs) :
        LET cmd == execs[k].cmd
        IN  /\ \A i \in DirSteps(cmd), j \in WorkspaceBindSteps(cmd) : i < j
            /\ OrderedAndReadOnly(cmd)

\* A child runs with its output directory inside the policy's references
\* directory: the read-only bind of references covers the read-write bind.
C26_OutputInsidePolicyReadOnly ==
    /\ Launched
    /\ run.args.output_dir = Rel(<<N_skill, N_refs, N_output>>)
    /\ run.args.skill_dir_relpath = Rel(<<N_skill>>)
    /\ Mount("--bind", Wt1 \o <<N_skill, N_refs, N_output>>,
             <<N_workspace, N_skill, N_refs, N_output>>) \in ManifestBinds(execs[1].cmd)
    /\ ModeAt(execs[1].cmd, <<N_workspace, N_skill, N_refs, N_output>>) = "--ro-bind"
    /\ ModeAt(execs[1].cmd, <<N_workspace, N_skill, N_refs>>) = "--ro-bind"
=============================================================================
